---- MODULE Spec2Model ----
(***************************************************************************)
(* Device-communication and collection subsystem of YJ_Monitoring:         *)
(*   - ModbusTcpManager (connection registry, per-endpoint locks)          *)
(*   - BoxSensorReader / PowerMeterReader (register transactions)          *)
(*   - BoxSensorCollector / PowerMeterCollector (per-cycle fan-out)        *)
(*   - BoxSensorService / PowerMeterService / DataCollectionService        *)
(*     (background loop, start/stop, statistics)                           *)
(*                                                                         *)
(*   - protocols.py (conversion of registers to values)                    *)
(*                                                                         *)
(* Eight specifications share the module:                                  *)
(*   RegSpec : reader threads against the connection registry              *)
(*   MgrSpec : the methods of a manager called in any order                *)
(*   Spec    : one collection cycle (_collect_once) of a service           *)
(*   SvcSpec : start / stop / background loop of a service                 *)
(*   ParseSpec : the conversions applied to the registers of a response    *)
(*   ColSpec : collect_all on one collector from two threads               *)
(*   LockSpec : the registry-wide lock and the endpoint locks              *)
(*   StatSpec : self.stats under cycles on two threads and reset_stats     *)
(* SvcFairSpec and LockFairSpec add the scheduling assumptions under which *)
(* the liveness properties are checked.                                    *)
(***************************************************************************)
EXTENDS Integers, Sequences, FiniteSets, TLC

\* Python's None, for references to objects and for numeric values
None == -1

\* no thread (an unlocked threading.Lock has no owner)
NoThread == "none"

(***************************************************************************)
(* Bounds of the model                                                     *)
(***************************************************************************)
\* client objects (ModbusTcpClient) that are ever created
MaxHandles == 3
\* threading.Lock objects that are ever created for endpoints
MaxLocks == 3

\* collection cycles (_collect_once calls) that are ever started
MaxCycles == 2
\* threads one service ever creates
MaxThreads == 2
\* start() and stop() calls made on one service
MaxCalls == 3
\* cycles the background loops of one service begin
MaxLoopCycles == 2
\* the longest collection interval, in clock ticks
MaxInterval == 2
\* the longest register list of a response
MaxRegs == 3
\* _collect_once calls made on the three services together
MaxStatCycles == 3

VARIABLES
    \* ---- ModbusTcpManager objects and reader threads (RegSpec) ----
    clients,    \* clients[m][e]  : self.clients of manager m, handle or None
    locks,      \* locks[m][e]    : self.locks of manager m, lock or None
    hstate,     \* hstate[h]      : state of client object h
    lockOwner,  \* lockOwner[l]   : thread holding lock object l, or None
    nextHandle, \* number of client objects created so far
    nextLock,   \* number of lock objects created so far
    rpc,        \* rpc[t]         : position of reader thread t in its sub-read
    rclient,    \* rclient[t]     : local variable client of the sub-read
    rlock,      \* rlock[t]       : lock object returned by get_lock
    rsub,       \* rsub[t]        : which sub-read of read_all_sensors is next
    the_instance, \* ModbusTcpManager._instance is set
    reader_mgr, \* reader_mgr[t]  : reader.modbus_manager of the reader of t
    rlast,      \* the manager call made by the latest step, and what it met
    \* ---- one collection cycle of a service (Spec) ----
    box_ips,          \* config/box_ips.json as ConfigService loads it
    power_file,       \* config/power_meter_config.json: the enabled flag of each meter
    meter_configs,    \* PowerMeterReader.meter_configs
    cstep,            \* position of the cycle inside _collect_once (0: no cycle)
    ckind,            \* the service whose _collect_once runs
    cidx,             \* loop index into the device list being collected
    power_meter_data, \* what the power collector returned / the box collector is given
    hp_results,       \* results of collect_all_heatpumps so far
    gp_results,       \* results of collect_all_groundpipes so far
    last,             \* the device collected by the latest step and what was persisted
    powerReturned,    \* the power collector's collect_all of this cycle has returned
    boxBegun,         \* a box register transaction or insert of this cycle has begun
    stats,            \* stats[k] : self.stats of service k
    cycles,           \* number of cycles started
    \* ---- start / stop / _collection_loop of one service (SvcSpec) ----
    svc_running,      \* self._running
    stop_event,       \* self._stop_event is set
    svc_thread,       \* self._thread: a thread or None
    interval,         \* self.interval, None before the first start()
    tpc,              \* tpc[t]: position of thread t in _collection_loop
    remaining,        \* remaining[t]: ticks until the wait of t times out
    svc_total,        \* self.stats['total_collections'] of the service
    caller,           \* position of the thread that calls start() and stop()
    calls,            \* the start() and stop() calls made so far
    svc_exc,          \* what was raised in the latest _collect_once, and where
    sub_reads,        \* sub_reads[t]: sub-reads the cycle thread t is in has begun
    \* ---- register conversions (ParseSpec) ----
    p_regs,           \* result.registers of a response
    p_fn,             \* the conversion applied to it last
    p_arg,            \* the index argument of that conversion
    p_out,            \* what the conversion returned
    p_val,            \* the energy a meter encoded in the response, if it is one
    p_model,          \* the encoding variant of the meter that was read
    \* ---- the reader cache of one BoxSensorCollector (ColSpec) ----
    readers,          \* self.readers: the slave ids of the cached reader of an endpoint
    col_pc,           \* col_pc[t]: position of thread t in collect_all
    col_dev,          \* col_dev[t]: index of the device thread t collects
    col_sub,          \* col_sub[t]: the sub-read of read_all_sensors that is next
    col_sent,         \* col_sent[t]: the latest sub-read of thread t and how it ended
    \* ---- the locks of one ModbusTcpManager (LockSpec) ----
    reg_lock,         \* the thread that holds self._lock, or NoThread
    lk_client,        \* self.clients[key]: absent, connected or lost
    lk_lock,          \* self.locks[key]: a lock object, or None
    ep_owner,         \* ep_owner[l]: the thread that holds endpoint lock object l
    lk_pc,            \* lk_pc[t]: position of thread t in its call
    lk_target,        \* lk_target[t]: the lock object get_lock returned to t
    lk_stale,         \* lk_stale[t]: the client t holds has been unregistered
    \* ---- self.stats of the three services under concurrent cycles (StatSpec) ----
    st_stats,         \* st_stats[k]: the dict self.stats of service k refers to
    latest_data,      \* PowerMeterService._latest_data
    st_running,       \* st_running[k]: self._running of service k
    st_pc,            \* st_pc[t]: position of thread t in _collect_once
    st_kind,          \* st_kind[t]: the service whose _collect_once t runs
    st_reg,           \* st_reg[t]: the counter value the += in progress has loaded
    st_stale,         \* st_stale[t]: reset_stats has replaced the dict the += in progress loaded
    st_field,         \* st_field[t]: the counter the += in progress updates
    st_raised,        \* st_raised[t]: the try block of the cycle of t raised
    st_begun,         \* st_begun[k]: cycles of service k begun since its stats dict was made
    st_overlap,       \* st_overlap[k]: two of these cycles have overlapped
    st_midreset,      \* st_midreset[k]: the dict was made by a reset_stats during a cycle of k
    st_nested         \* a _collect_once of a nested service has been called

regVars == <<clients, locks, hstate, lockOwner, nextHandle, nextLock,
             rpc, rclient, rlock, rsub, the_instance, reader_mgr, rlast>>

cycVars == <<box_ips, power_file, meter_configs, cstep, ckind, cidx, power_meter_data,
             hp_results, gp_results, last, powerReturned, boxBegun,
             stats, cycles>>

svcVars == <<svc_running, stop_event, svc_thread, interval, tpc, remaining,
             svc_total, caller, calls, svc_exc, sub_reads>>

parseVars == <<p_regs, p_fn, p_arg, p_out, p_val, p_model>>

colVars == <<readers, col_pc, col_dev, col_sub, col_sent>>

lockVars == <<reg_lock, lk_client, lk_lock, ep_owner, lk_pc, lk_target, lk_stale>>

statVars == <<st_stats, latest_data, st_running, st_pc, st_kind, st_reg,
              st_stale, st_field, st_raised, st_begun, st_overlap, st_midreset,
              st_nested>>

vars == <<regVars, cycVars, svcVars, parseVars, colVars, lockVars, statVars>>

(***************************************************************************)
(* ModbusTcpManager                                                        *)
(***************************************************************************)
\* The manager objects of a process: the singleton behind get_instance(),
\* used by every BoxSensorReader, and the one PowerMeterReader constructs
\* for itself with ModbusTcpManager().
Managers == {"singleton", "power"}

\* connection_key = f"{ip}:{port}"
Endpoints == {"ep1"}

Handles == 1..MaxHandles

LockIds == 1..MaxLocks

\* threads running BoxSensorReader sub-reads (a scheduled loop and a manual
\* collect_now or a second service), and the thread running PowerMeterReader
BoxThreads == {"b1", "b2"}

PowerThreads == {"p1"}

ReaderThreads == BoxThreads \cup PowerThreads

\* ModbusTcpManager.__init__, lines 49-50: the constructor raises once the
\* class attribute _instance is set; it does not set _instance itself
init_raises(inst) == inst

\* get_instance(), lines 80-85: _instance is created on first use and
\* returned
get_instance(inst) == "singleton"

\* BoxSensorReader.__init__, line 121: ModbusTcpManager.get_instance();
\* PowerMeterReader.__init__, line 67: ModbusTcpManager(), a new object, or
\* the constructor's exception
NewReaderManager(t, inst) ==
    IF t \in BoxThreads THEN get_instance(inst)
    ELSE IF init_raises(inst) THEN "raised" ELSE "power"

\* reader.modbus_manager
ManagerOf(t) == reader_mgr[t]

\* the reader of thread t was constructed
Built(t) == reader_mgr[t] \in Managers

\* manager object m was constructed
Made(m) == IF m = "singleton" THEN the_instance
           ELSE \E t \in ReaderThreads : reader_mgr[t] = m

\* what client.connect() does: it returns True, returns False, or raises
ConnectOutcomes == {"connected", "refused", "raises"}

connect_ok(co) == co = "connected"

\* whether an exception raised by a call leaves the method that made the
\* call: it does not when the call is inside try ... except
Escapes(outcome, in_try) == outcome = "raises" /\ ~in_try

\* get_client, lines 121-143: the client is created and connected inside
\* try ... except Exception, which logs and returns None
get_client_raises(co) == Escapes(co, TRUE)

\* what client.close() does inside close_all
CloseOutcomes == {"closed", "raises"}

\* close_all, lines 186-191: client.close() is inside try ... except Exception
close_all_raises(cl) == Escapes(cl, TRUE)

\* no manager call recorded
NoOp == [op |-> "none", m |-> "none", e |-> "none", found |-> None, was |-> "absent",
         connect |-> "none", result |-> None, raised |-> FALSE, closed |-> {}]

\* client.connected
Connected(h) == hstate[h] = "connected"

\* The registry part of the state as one value, so that the manager's
\* methods are functions from registry to registry.
Registry == [clients |-> clients, locks |-> locks, hstate |-> hstate,
             nextHandle |-> nextHandle, nextLock |-> nextLock]

\* get_client with lines 110-118 left out: the disconnected client stays
M16_EvictIfDisconnected(reg, m, e) == reg

\* get_client, lines 104-118: the registered client is reused when it reports
\* connected; a registered client that is not connected is closed and removed
\* together with the endpoint's lock.
EvictIfDisconnected(reg, m, e) ==
    LET h == reg.clients[m][e]
    IN  IF h # None /\ reg.hstate[h] # "connected"
        THEN [reg EXCEPT !.hstate[h] = "closed",
                         !.clients[m][e] = None,
                         !.locks[m][e] = None]
        ELSE reg

\* get_client with the test of connect() on line 133 left out: the new
\* client and a new Lock are registered whatever connect() did
M17_ConnectNew(reg, m, e, ok) ==
    [reg EXCEPT !.nextHandle = @ + 1,
                !.hstate[reg.nextHandle + 1] = IF ok THEN "connected" ELSE "lost",
                !.clients[m][e] = reg.nextHandle + 1,
                !.nextLock = @ + 1,
                !.locks[m][e] = reg.nextLock + 1]

\* get_client, lines 121-143: a new client is created and connect() is tried;
\* on success the client and a new Lock are registered.
ConnectNew(reg, m, e, ok) ==
    IF ok
    THEN [reg EXCEPT !.nextHandle = @ + 1,
                     !.hstate[reg.nextHandle + 1] = "connected",
                     !.clients[m][e] = reg.nextHandle + 1,
                     !.nextLock = @ + 1,
                     !.locks[m][e] = reg.nextLock + 1]
    ELSE reg

\* get_client with the reuse branch of lines 104-109 left out: every call
\* creates and connects a new client
M18_get_client(reg, m, e, ok) ==
    ConnectNew(EvictIfDisconnected(reg, m, e), m, e, ok)

\* get_client that returns whatever client is registered, without the test
\* of client.connected on line 105
M34_get_client(reg, m, e, ok) ==
    IF reg.clients[m][e] # None
    THEN reg
    ELSE ConnectNew(reg, m, e, ok)

\* get_client(ip, port): the registry after the call; ok is the outcome of
\* client.connect() when a connect is attempted.
get_client(reg, m, e, ok) ==
    LET h == reg.clients[m][e]
    IN  IF h # None /\ reg.hstate[h] = "connected"
        THEN reg
        ELSE ConnectNew(EvictIfDisconnected(reg, m, e), m, e, ok)

\* the value get_client returns: the registered client, or None when the
\* connect failed
get_client_result(reg, m, e, ok) ==
    get_client(reg, m, e, ok).clients[m][e]

\* whether get_client has to create objects (bounded in the model)
NeedsConnect(reg, m, e) ==
    LET h == reg.clients[m][e]
    IN  ~(h # None /\ reg.hstate[h] = "connected")

\* get_lock(ip, port): the lock is created lazily
get_lock(reg, m, e) ==
    IF reg.locks[m][e] = None
    THEN [reg EXCEPT !.nextLock = @ + 1, !.locks[m][e] = reg.nextLock + 1]
    ELSE reg

\* close_all with self.locks.clear() on line 194 left out
M19_close_all(reg, m) ==
    [reg EXCEPT !.hstate = [h \in Handles |->
                              IF \E e \in Endpoints : reg.clients[m][e] = h
                              THEN "closed" ELSE reg.hstate[h]],
                !.clients[m] = [e \in Endpoints |-> None]]

\* close_all(): every registered client is closed, both maps are cleared
close_all(reg, m) ==
    [reg EXCEPT !.hstate = [h \in Handles |->
                              IF \E e \in Endpoints : reg.clients[m][e] = h
                              THEN "closed" ELSE reg.hstate[h]],
                !.clients[m] = [e \in Endpoints |-> None],
                !.locks[m] = [e \in Endpoints |-> None]]

\* the record of a get_client(e) call on manager m: the handle it found
\* registered and what that handle reported, the outcome of connect() when
\* one was attempted, and the value returned
GetClientOp(m, e, co, c) ==
    LET h == clients[m][e]
        attempted == NeedsConnect(Registry, m, e)
    IN  [op |-> "get_client", m |-> m, e |-> e, found |-> h,
         was |-> IF h = None THEN "absent"
                 ELSE IF Connected(h) THEN "connected" ELSE "disconnected",
         connect |-> IF attempted THEN co ELSE "none",
         result |-> c,
         raised |-> attempted /\ get_client_raises(co),
         closed |-> IF h # None /\ ~Connected(h) THEN {h} ELSE {}]

\* the record of a close_all() call on manager m: the handles it found
CloseAllOp(m, cl) ==
    [op |-> "close_all", m |-> m, e |-> "none", found |-> None, was |-> "absent",
     connect |-> "none", result |-> None,
     raised |-> close_all_raises(cl),
     closed |-> {clients[m][e] : e \in Endpoints} \ {None}]

\* is_connected(ip, port)
is_connected(reg, m, e) ==
    IF reg.clients[m][e] # None
    THEN reg.hstate[reg.clients[m][e]] = "connected"
    ELSE FALSE

SetRegistry(reg) ==
    /\ clients' = reg.clients
    /\ locks' = reg.locks
    /\ hstate' = reg.hstate
    /\ nextHandle' = reg.nextHandle
    /\ nextLock' = reg.nextLock

(***************************************************************************)
(* BoxSensorReader: _read_temperature / read_flow                          *)
(***************************************************************************)
\* read_all_sensors issues temperature-1, temperature-2, flow in this order
NextSub(s) == IF s = 3 THEN 1 ELSE s + 1

\* line 192-196 / 264-268: client = get_client(...); if not client: return None
BoxGetClient(t, e) ==
    /\ rpc[t] = "idle"
    /\ Built(t)
    /\ \E co \in ConnectOutcomes :
         /\ NeedsConnect(Registry, ManagerOf(t), e) /\ connect_ok(co)
              => nextHandle < MaxHandles /\ nextLock < MaxLocks
         /\ LET reg == get_client(Registry, ManagerOf(t), e, connect_ok(co))
                c == get_client_result(Registry, ManagerOf(t), e, connect_ok(co))
            IN  /\ SetRegistry(reg)
                /\ UNCHANGED rlast
                /\ rclient' = [rclient EXCEPT ![t] = c]
                /\ IF c = None
                   THEN /\ rsub' = [rsub EXCEPT ![t] = NextSub(@)]
                        /\ rpc' = rpc
                   ELSE /\ rpc' = [rpc EXCEPT ![t] = "got_client"]
                        /\ rsub' = rsub
    /\ UNCHANGED <<lockOwner, rlock, the_instance, reader_mgr>>
    /\ UNCHANGED <<cycVars, svcVars, parseVars, colVars, lockVars, statVars>>

\* line 201 / 273: self.modbus_manager.get_lock(self.ip, self.port)
BoxGetLock(t, e) ==
    /\ rpc[t] = "got_client"
    /\ locks[ManagerOf(t)][e] = None => nextLock < MaxLocks
    /\ LET reg == get_lock(Registry, ManagerOf(t), e)
       IN  /\ SetRegistry(reg)
           /\ rlock' = [rlock EXCEPT ![t] = reg.locks[ManagerOf(t)][e]]
    /\ rpc' = [rpc EXCEPT ![t] = "got_lock"]
    /\ UNCHANGED rlast
    /\ UNCHANGED <<lockOwner, rclient, rsub, the_instance, reader_mgr>>
    /\ UNCHANGED <<cycVars, svcVars, parseVars, colVars, lockVars, statVars>>

\* line 201-210 / 273-279: "with lock:" blocks until the lock is free, then
\* client.read_holding_registers(...) is issued
BoxAcquireAndIssue(t) ==
    /\ rpc[t] = "got_lock"
    /\ lockOwner[rlock[t]] = NoThread
    /\ lockOwner' = [lockOwner EXCEPT ![rlock[t]] = t]
    /\ rpc' = [rpc EXCEPT ![t] = "in_txn"]
    /\ UNCHANGED rlast
    /\ UNCHANGED <<clients, locks, hstate, nextHandle, nextLock, rclient, rlock, rsub, the_instance, reader_mgr>>
    /\ UNCHANGED <<cycVars, svcVars, parseVars, colVars, lockVars, statVars>>

\* The state of the client object after a transaction: a response (good or
\* an error response) was received over an open socket (the client opens its
\* socket again when it is used after a close), a transport error leaves
\* the socket closed.
AfterTransaction(h, outcome) ==
    IF outcome # "transport_error"
    THEN "connected"
    ELSE IF hstate[h] = "connected" THEN "lost" ELSE hstate[h]

TxnOutcomes == {"ok", "error_response", "transport_error"}

\* the transaction returns under one "with lock:" around the three sub-reads
\* of read_all_sensors: the lock is released after the flow sub-read only
M28_BoxComplete(t) ==
    /\ rpc[t] = "in_txn"
    /\ \E outcome \in TxnOutcomes :
         hstate' = [hstate EXCEPT ![rclient[t]] = AfterTransaction(rclient[t], outcome)]
    /\ lockOwner' = IF rsub[t] = 3
                    THEN [lockOwner EXCEPT ![rlock[t]] = NoThread]
                    ELSE lockOwner
    /\ rpc' = [rpc EXCEPT ![t] = "idle"]
    /\ rsub' = [rsub EXCEPT ![t] = NextSub(@)]
    /\ rclient' = [rclient EXCEPT ![t] = None]
    /\ rlock' = [rlock EXCEPT ![t] = None]
    /\ UNCHANGED rlast
    /\ UNCHANGED <<clients, locks, nextHandle, nextLock, the_instance, reader_mgr>>
    /\ UNCHANGED <<cycVars, svcVars, parseVars, colVars, lockVars, statVars>>

\* line 215-239 / 284-308: the transaction returns or raises, the value is
\* parsed, the with block releases the lock
BoxComplete(t) ==
    /\ rpc[t] = "in_txn"
    /\ \E outcome \in TxnOutcomes :
         hstate' = [hstate EXCEPT ![rclient[t]] = AfterTransaction(rclient[t], outcome)]
    /\ lockOwner' = [lockOwner EXCEPT ![rlock[t]] = NoThread]
    /\ rpc' = [rpc EXCEPT ![t] = "idle"]
    /\ rsub' = [rsub EXCEPT ![t] = NextSub(@)]
    /\ rclient' = [rclient EXCEPT ![t] = None]
    /\ rlock' = [rlock EXCEPT ![t] = None]
    /\ UNCHANGED rlast
    /\ UNCHANGED <<clients, locks, nextHandle, nextLock, the_instance, reader_mgr>>
    /\ UNCHANGED <<cycVars, svcVars, parseVars, colVars, lockVars, statVars>>

(***************************************************************************)
(* PowerMeterReader.read_total_energy                                      *)
(***************************************************************************)
\* line 115: client = self.modbus_manager.get_client(self.ip, self.port);
\* with client None the call on line 118 raises and line 156 returns None
PowerGetClient(t, e) ==
    /\ rpc[t] = "idle"
    /\ Built(t)
    /\ \E co \in ConnectOutcomes :
         /\ NeedsConnect(Registry, ManagerOf(t), e) /\ connect_ok(co)
              => nextHandle < MaxHandles /\ nextLock < MaxLocks
         /\ LET reg == get_client(Registry, ManagerOf(t), e, connect_ok(co))
                c == get_client_result(Registry, ManagerOf(t), e, connect_ok(co))
            IN  /\ SetRegistry(reg)
                /\ UNCHANGED rlast
                /\ rclient' = [rclient EXCEPT ![t] = c]
                /\ rpc' = [rpc EXCEPT ![t] = IF c = None THEN "idle" ELSE "got_client"]
    /\ UNCHANGED <<lockOwner, rlock, rsub, the_instance, reader_mgr>>
    /\ UNCHANGED <<cycVars, svcVars, parseVars, colVars, lockVars, statVars>>

\* the lock read_total_energy takes around its transaction: none
PowerReaderLock(t) == None

\* line 118-122: client.read_holding_registers(...)
PowerIssue(t) ==
    /\ rpc[t] = "got_client"
    /\ rlock' = [rlock EXCEPT ![t] = PowerReaderLock(t)]
    /\ rpc' = [rpc EXCEPT ![t] = "in_txn"]
    /\ UNCHANGED rlast
    /\ UNCHANGED <<clients, locks, hstate, lockOwner, nextHandle, nextLock, rclient, rsub, the_instance, reader_mgr>>
    /\ UNCHANGED <<cycVars, svcVars, parseVars, colVars, lockVars, statVars>>

\* line 124-158: the transaction returns or raises
PowerComplete(t) ==
    /\ rpc[t] = "in_txn"
    /\ \E outcome \in TxnOutcomes :
         hstate' = [hstate EXCEPT ![rclient[t]] = AfterTransaction(rclient[t], outcome)]
    /\ rpc' = [rpc EXCEPT ![t] = "idle"]
    /\ rclient' = [rclient EXCEPT ![t] = None]
    /\ UNCHANGED rlast
    /\ UNCHANGED <<clients, locks, lockOwner, nextHandle, nextLock, rlock, rsub, the_instance, reader_mgr>>
    /\ UNCHANGED <<cycVars, svcVars, parseVars, colVars, lockVars, statVars>>

\* ModbusTcpManager.close_all(), called by PowerMeterReader.close(), by
\* __del__ or directly
CloseAll(m) ==
    /\ Made(m)
    /\ SetRegistry(close_all(Registry, m))
    /\ UNCHANGED rlast
    /\ UNCHANGED <<lockOwner, rpc, rclient, rlock, rsub, the_instance, reader_mgr>>
    /\ UNCHANGED <<cycVars, svcVars, parseVars, colVars, lockVars, statVars>>

\* BoxSensorReader(...) / PowerMeterReader(...): the reader of thread t is
\* constructed and takes its manager
ReaderInit(t) ==
    /\ reader_mgr[t] = "unbuilt"
    /\ reader_mgr' = [reader_mgr EXCEPT ![t] = NewReaderManager(t, the_instance)]
    /\ the_instance' = (the_instance \/ t \in BoxThreads)
    /\ UNCHANGED rlast
    /\ UNCHANGED <<clients, locks, hstate, lockOwner, nextHandle, nextLock,
                   rpc, rclient, rlock, rsub>>
    /\ UNCHANGED <<cycVars, svcVars, parseVars, colVars, lockVars, statVars>>

(***************************************************************************)
(* The methods of one manager, called in any order by any caller           *)
(***************************************************************************)
\* get_client(ip, port) on manager m, with every outcome of connect()
MgrGetClient(m, e) ==
    /\ Made(m)
    /\ \E co \in ConnectOutcomes :
         /\ NeedsConnect(Registry, m, e) /\ connect_ok(co)
              => nextHandle < MaxHandles /\ nextLock < MaxLocks
         /\ SetRegistry(get_client(Registry, m, e, connect_ok(co)))
         /\ rlast' = GetClientOp(m, e, co, get_client_result(Registry, m, e, connect_ok(co)))
    /\ UNCHANGED <<lockOwner, rpc, rclient, rlock, rsub, the_instance, reader_mgr>>
    /\ UNCHANGED <<cycVars, svcVars, parseVars, colVars, lockVars, statVars>>

\* get_lock(ip, port) on manager m
MgrGetLock(m, e) ==
    /\ Made(m)
    /\ locks[m][e] = None
    /\ nextLock < MaxLocks
    /\ SetRegistry(get_lock(Registry, m, e))
    /\ rlast' = NoOp
    /\ UNCHANGED <<lockOwner, rpc, rclient, rlock, rsub, the_instance, reader_mgr>>
    /\ UNCHANGED <<cycVars, svcVars, parseVars, colVars, lockVars, statVars>>

\* close_all() on manager m, with every outcome of the close() calls
MgrCloseAll(m) ==
    /\ Made(m)
    /\ SetRegistry(close_all(Registry, m))
    /\ \E cl \in CloseOutcomes : rlast' = CloseAllOp(m, cl)
    /\ UNCHANGED <<lockOwner, rpc, rclient, rlock, rsub, the_instance, reader_mgr>>
    /\ UNCHANGED <<cycVars, svcVars, parseVars, colVars, lockVars, statVars>>

\* a register transaction on client object h by whoever holds a reference
\* to it, registered or not
MgrTransaction(h) ==
    /\ h <= nextHandle
    /\ \E outcome \in TxnOutcomes :
         hstate' = [hstate EXCEPT ![h] = AfterTransaction(h, outcome)]
    /\ rlast' = NoOp
    /\ UNCHANGED <<clients, locks, lockOwner, nextHandle, nextLock,
                   rpc, rclient, rlock, rsub, the_instance, reader_mgr>>
    /\ UNCHANGED <<cycVars, svcVars, parseVars, colVars, lockVars, statVars>>

MgrNext ==
    \/ \E t \in ReaderThreads : ReaderInit(t)
    \/ \E m \in Managers, e \in Endpoints : MgrGetClient(m, e)
    \/ \E m \in Managers, e \in Endpoints : MgrGetLock(m, e)
    \/ \E m \in Managers : MgrCloseAll(m)
    \/ \E h \in Handles : MgrTransaction(h)

RegInit ==
    /\ clients = [m \in Managers |-> [e \in Endpoints |-> None]]
    /\ locks = [m \in Managers |-> [e \in Endpoints |-> None]]
    /\ hstate = [h \in Handles |-> "unused"]
    /\ lockOwner = [l \in LockIds |-> NoThread]
    /\ nextHandle = 0
    /\ nextLock = 0
    /\ rpc = [t \in ReaderThreads |-> "idle"]
    /\ rclient = [t \in ReaderThreads |-> None]
    /\ rlock = [t \in ReaderThreads |-> None]
    /\ rsub = [t \in ReaderThreads |-> 1]
    /\ the_instance = FALSE
    /\ reader_mgr = [t \in ReaderThreads |-> "unbuilt"]
    /\ rlast = NoOp

RegNext ==
    \/ \E t \in ReaderThreads : ReaderInit(t)
    \/ \E t \in BoxThreads, e \in Endpoints : BoxGetClient(t, e)
    \/ \E t \in BoxThreads, e \in Endpoints : BoxGetLock(t, e)
    \/ \E t \in BoxThreads : BoxAcquireAndIssue(t)
    \/ \E t \in BoxThreads : BoxComplete(t)
    \/ \E t \in PowerThreads, e \in Endpoints : PowerGetClient(t, e)
    \/ \E t \in PowerThreads : PowerIssue(t)
    \/ \E t \in PowerThreads : PowerComplete(t)
    \/ \E m \in Managers : CloseAll(m)

(***************************************************************************)
(* Configuration (config/box_ips.json, config/power_meter_config.json)     *)
(***************************************************************************)
HeatpumpIds == <<"HP_1", "HP_2">>

GroundpipeIds == <<"GP_1">>

\* PowerMeterReader.meter_configs: the enabled meters, by device id
Meters == <<"HP_1", "HP_2">>

SeqToSet(q) == {q[i] : i \in 1..Len(q)}

\* the contents of power_meter_config.json: every meter enabled, as the
\* model starts, or the second meter disabled
DefaultPowerConfig == [d \in SeqToSet(Meters) |-> TRUE]

PowerConfigs == {DefaultPowerConfig, [DefaultPowerConfig EXCEPT !["HP_2"] = FALSE]}

\* PowerMeterSystemConfig.get_enabled_meters
get_enabled_meters(file) == SelectSeq(Meters, LAMBDA d : file[d])

\* PowerMeterCollector defines __init__ and collect_all and nothing else:
\* it has no method reload_config
CollectorHasReloadConfig == FALSE

\* PowerMeterService.reload_config, line 257: self.collector.reload_config();
\* the attribute lookup raises AttributeError and the reader keeps the
\* meter_configs its constructor loaded
reload_config(mc, file) ==
    IF CollectorHasReloadConfig THEN get_enabled_meters(file) ELSE mc

BoxDevices == SeqToSet(HeatpumpIds) \cup SeqToSet(GroundpipeIds)

\* the contents of box_ips.json the model starts from: the configured
\* devices with any choice of enabled flags, or no device at all
BoxConfigs ==
    {[heatpump |-> HeatpumpIds, groundpipe |-> GroundpipeIds, enabled |-> en] :
        en \in [BoxDevices -> BOOLEAN]}
    \cup {[heatpump |-> <<>>, groundpipe |-> <<>>,
           enabled |-> [d \in BoxDevices |-> TRUE]]}

(***************************************************************************)
(* BoxSensorReader.read_all_sensors                                        *)
(***************************************************************************)
\* Python None where a dict or a record is expected
NoneRec == [none |-> TRUE]

\* the values a sub-read can parse: a zero and a non-zero reading
Vals == {0, 1}

\* the energies a meter can report
EnergyVals == {1, 2}

\* what one sub-read (_read_temperature, read_flow) returns: None on every
\* failure path (no client, error response, exception), else the parsed value
SubInputs == {None} \cup Vals

\* Python truth value of an Optional[float]
Falsy(v) == v = None \/ v = 0

\* read_all_sensors with the three values tested by truth value instead of
\* "is None"
M5_read_all_sensors(input_temp, output_temp, flow) ==
    IF Falsy(input_temp) /\ Falsy(output_temp) /\ Falsy(flow)
    THEN NoneRec
    ELSE [input_temp |-> input_temp, output_temp |-> output_temp, flow |-> flow]

\* read_all_sensors, lines 368-384: None when all three values are None,
\* else the dict of the three values
read_all_sensors(input_temp, output_temp, flow) ==
    IF input_temp = None /\ output_temp = None /\ flow = None
    THEN NoneRec
    ELSE [input_temp |-> input_temp, output_temp |-> output_temp, flow |-> flow]

(***************************************************************************)
(* BoxSensorCollector                                                      *)
(***************************************************************************)
\* how a call of insert_heatpump_data, insert_groundpipe_data or
\* insert_power_meter_data ends: it returns True, returns False, or raises
InsertOutcomes == {"ok", "returns_false", "raises"}

\* a dict argument that may be None: given says whether it is a dict
NoDict == [given |-> FALSE, dict |-> <<>>]

AsDict(d) == [given |-> TRUE, dict |-> d]

\* Python truth value of an Optional[dict]
Truthy(pmd) == pmd.given /\ DOMAIN pmd.dict # {}

\* collect_heatpump that never attaches an energy value
M14_EnergyFor(pmd, device_id) == None

\* collect_heatpump, lines 156-158
EnergyFor(pmd, device_id) ==
    IF Truthy(pmd) /\ device_id \in DOMAIN pmd.dict
    THEN pmd.dict[device_id]
    ELSE None

\* collect_heatpump that gives up unless all three values were read
M6_collect_heatpump(device_id, enabled, s1, s2, s3, ins, pmd) ==
    IF ~enabled \/ s1 = None \/ s2 = None \/ s3 = None
    THEN [success |-> FALSE, read |-> enabled,
          subs_ok |-> <<enabled /\ s1 # None, enabled /\ s2 # None,
                        enabled /\ s3 # None>>,
          sensor_data |-> NoneRec, insert |-> "not_called", record |-> NoneRec]
    ELSE [success |-> (ins = "ok"), read |-> TRUE,
          subs_ok |-> <<TRUE, TRUE, TRUE>>,
          sensor_data |-> read_all_sensors(s1, s2, s3),
          insert |-> ins,
          record |-> IF ins = "ok"
                     THEN [device_id |-> device_id, input_temp |-> s1,
                           output_temp |-> s2, flow |-> s3,
                           energy |-> EnergyFor(pmd, device_id)]
                     ELSE NoneRec]

\* collect_heatpump(device_id, power_meter_data), lines 117-187; s1..s3 are
\* what the three sub-reads returned, ins how insert_heatpump_data ended
collect_heatpump(device_id, enabled, s1, s2, s3, ins, pmd) ==
    IF ~enabled
    THEN [success |-> FALSE, read |-> FALSE, subs_ok |-> <<FALSE, FALSE, FALSE>>,
          sensor_data |-> NoneRec, insert |-> "not_called", record |-> NoneRec]
    ELSE LET sensor_data == read_all_sensors(s1, s2, s3)
             subs == <<s1 # None, s2 # None, s3 # None>>
         IN  IF sensor_data = NoneRec
             THEN [success |-> FALSE, read |-> TRUE, subs_ok |-> subs,
                   sensor_data |-> NoneRec, insert |-> "not_called",
                   record |-> NoneRec]
             ELSE [success |-> (ins = "ok"), read |-> TRUE, subs_ok |-> subs,
                   sensor_data |-> sensor_data,
                   insert |-> ins,
                   record |-> IF ins = "ok"
                              THEN [device_id |-> device_id,
                                    input_temp |-> sensor_data.input_temp,
                                    output_temp |-> sensor_data.output_temp,
                                    flow |-> sensor_data.flow,
                                    energy |-> EnergyFor(pmd, device_id)]
                              ELSE NoneRec]

\* collect_groundpipe that returns True whenever the read gave a reading
M13_collect_groundpipe(device_id, enabled, s1, s2, s3, ins) ==
    IF ~enabled
    THEN [success |-> FALSE, read |-> FALSE, subs_ok |-> <<FALSE, FALSE, FALSE>>,
          sensor_data |-> NoneRec, insert |-> "not_called", record |-> NoneRec]
    ELSE LET sensor_data == read_all_sensors(s1, s2, s3)
             subs == <<s1 # None, s2 # None, s3 # None>>
         IN  IF sensor_data = NoneRec
             THEN [success |-> FALSE, read |-> TRUE, subs_ok |-> subs,
                   sensor_data |-> NoneRec, insert |-> "not_called",
                   record |-> NoneRec]
             ELSE [success |-> TRUE, read |-> TRUE, subs_ok |-> subs,
                   sensor_data |-> sensor_data,
                   insert |-> ins,
                   record |-> IF ins = "ok"
                              THEN [device_id |-> device_id,
                                    input_temp |-> sensor_data.input_temp,
                                    output_temp |-> sensor_data.output_temp,
                                    flow |-> sensor_data.flow]
                              ELSE NoneRec]

\* collect_groundpipe(device_id), lines 199-262
collect_groundpipe(device_id, enabled, s1, s2, s3, ins) ==
    IF ~enabled
    THEN [success |-> FALSE, read |-> FALSE, subs_ok |-> <<FALSE, FALSE, FALSE>>,
          sensor_data |-> NoneRec, insert |-> "not_called", record |-> NoneRec]
    ELSE LET sensor_data == read_all_sensors(s1, s2, s3)
             subs == <<s1 # None, s2 # None, s3 # None>>
         IN  IF sensor_data = NoneRec
             THEN [success |-> FALSE, read |-> TRUE, subs_ok |-> subs,
                   sensor_data |-> NoneRec, insert |-> "not_called",
                   record |-> NoneRec]
             ELSE [success |-> (ins = "ok"), read |-> TRUE, subs_ok |-> subs,
                   sensor_data |-> sensor_data,
                   insert |-> ins,
                   record |-> IF ins = "ok"
                              THEN [device_id |-> device_id,
                                    input_temp |-> sensor_data.input_temp,
                                    output_temp |-> sensor_data.output_temp,
                                    flow |-> sensor_data.flow]
                              ELSE NoneRec]

(***************************************************************************)
(* PowerMeterCollector.collect_all                                         *)
(***************************************************************************)
\* read_all_meters: one PowerMeterData per meter whose read gave a value
read_all_meters(readings) ==
    SelectSeq([i \in 1..Len(meter_configs) |->
                  [device_id |-> meter_configs[i],
                   total_energy |-> readings[meter_configs[i]]]],
              LAMBDA d : d.total_energy # None)

\* collect_all, lines 66-137: the results dict
power_collect_all(readings, inserts) ==
    LET data_list == read_all_meters(readings)
        stored == SelectSeq(data_list, LAMBDA d : inserts[d.device_id] = "ok")
        failed == SelectSeq(data_list, LAMBDA d : inserts[d.device_id] # "ok")
    IN  [success_count |-> Len(stored),
         total_count |-> Len(data_list),
         data |-> stored,
         errors |-> [i \in 1..Len(failed) |-> failed[i].device_id]]

(***************************************************************************)
(* _collect_once of BoxSensorService, PowerMeterService and                *)
(* DataCollectionService                                                   *)
(***************************************************************************)
Kinds == {"box", "power", "orch"}

\* _collect_once of the orchestrator with the box collector called first
M4_Phases(kind) ==
    CASE kind = "orch"  -> <<"heatpumps", "groundpipes", "power", "finish">>
      [] kind = "box"   -> <<"heatpumps", "groundpipes", "finish">>
      [] kind = "power" -> <<"power", "finish">>

\* the order of the calls inside the try block of _collect_once
Phases(kind) ==
    CASE kind = "orch"  -> <<"power", "heatpumps", "groundpipes", "finish">>
      [] kind = "box"   -> <<"heatpumps", "groundpipes", "finish">>
      [] kind = "power" -> <<"power", "finish">>

Phase == IF cstep = 0 THEN "idle" ELSE Phases(ckind)[cstep]

\* the power_meter_data argument a manual BoxSensorService.collect_now may
\* pass: nothing, an empty dict, or {device_id: energy}
ManualArgs ==
    {NoDict, AsDict(<<>>)} \cup {AsDict("HP_1" :> v) : v \in EnergyVals}

EmptyResults == <<>>

NoLast == [device_id |-> "", family |-> "", enabled |-> FALSE, read |-> FALSE,
           success |-> FALSE, sensor_data |-> NoneRec, subs_ok |-> <<FALSE, FALSE, FALSE>>, insert |-> "not_called",
           record |-> NoneRec]

\* _collect_once returns: its locals are gone
CycleOver ==
    /\ cstep' = 0
    /\ ckind' = "box"
    /\ cidx' = 1
    /\ power_meter_data' = NoDict
    /\ hp_results' = EmptyResults
    /\ gp_results' = EmptyResults
    /\ last' = NoLast
    /\ powerReturned' = FALSE
    /\ boxBegun' = FALSE

\* lines 159-160 (box), 147-148 (power), 166-167 (orchestrator)
CycStart(kind, arg) ==
    /\ cstep = 0
    /\ cycles < MaxCycles
    /\ cycles' = cycles + 1
    /\ stats' = [stats EXCEPT ![kind].total_collections = @ + 1]
    /\ ckind' = kind
    /\ cstep' = 1
    /\ cidx' = 1
    /\ power_meter_data' = arg
    /\ hp_results' = EmptyResults
    /\ gp_results' = EmptyResults
    /\ last' = NoLast
    /\ powerReturned' = FALSE
    /\ boxBegun' = FALSE
    /\ UNCHANGED <<box_ips, power_file, meter_configs>>
    /\ UNCHANGED <<regVars, svcVars, parseVars, colVars, lockVars, statVars>>

\* the configuration collaborator rewrites box_ips.json between two cycles
EditConfig(cfg) ==
    /\ cstep = 0
    /\ box_ips' = cfg
    /\ UNCHANGED <<power_file, meter_configs, cstep, ckind, cidx, power_meter_data, hp_results,
                   gp_results, last, powerReturned, boxBegun, stats, cycles>>
    /\ UNCHANGED <<regVars, svcVars, parseVars, colVars, lockVars, statVars>>

\* the configuration dialog rewrites power_meter_config.json between two
\* cycles
EditPowerConfig(cfg) ==
    /\ cstep = 0
    /\ cfg # power_file
    /\ power_file' = cfg
    /\ UNCHANGED <<box_ips, meter_configs, cstep, ckind, cidx, power_meter_data,
                   hp_results, gp_results, last, powerReturned, boxBegun, stats, cycles>>
    /\ UNCHANGED <<regVars, svcVars, parseVars, colVars, lockVars, statVars>>

\* PowerMeterService.reload_config() / DataCollectionService.reload_config()
\* called between two cycles
ReloadConfig ==
    /\ cstep = 0
    /\ meter_configs' = reload_config(meter_configs, power_file)
    /\ UNCHANGED <<box_ips, power_file, cstep, ckind, cidx, power_meter_data,
                   hp_results, gp_results, last, powerReturned, boxBegun, stats, cycles>>
    /\ UNCHANGED <<regVars, svcVars, parseVars, colVars, lockVars, statVars>>

\* self.collector.collect_all() of the power collector (power service line
\* 152, orchestrator line 175)
PowerCollectAll ==
    /\ Phase = "power"
    /\ \E readings \in [SeqToSet(Meters) -> EnergyVals \cup {None}],
          inserts \in [SeqToSet(Meters) -> InsertOutcomes] :
         power_meter_data' = AsDict(power_collect_all(readings, inserts))
    /\ powerReturned' = TRUE
    /\ cstep' = cstep + 1
    /\ UNCHANGED <<box_ips, power_file, meter_configs, ckind, cidx, hp_results, gp_results, last,
                   boxBegun, stats, cycles>>
    /\ UNCHANGED <<regVars, svcVars, parseVars, colVars, lockVars, statVars>>

\* collect_all_heatpumps, line 286: the call of collect_heatpump for the next
\* device of the list
HeatpumpCollect ==
    /\ Phase = "heatpumps"
    /\ cidx <= Len(box_ips.heatpump)
    /\ last = NoLast
    /\ LET device_id == box_ips.heatpump[cidx]
       IN  \E s1, s2, s3 \in SubInputs, ins \in InsertOutcomes :
             LET out == collect_heatpump(device_id, box_ips.enabled[device_id],
                                         s1, s2, s3, ins, power_meter_data)
             IN  /\ last' = [device_id |-> device_id, family |-> "heatpump",
                             enabled |-> box_ips.enabled[device_id],
                             read |-> out.read, success |-> out.success,
                             sensor_data |-> out.sensor_data,
                             subs_ok |-> out.subs_ok, insert |-> out.insert,
                             record |-> out.record]
                 /\ boxBegun' = (boxBegun \/ out.read)
    /\ UNCHANGED <<box_ips, power_file, meter_configs, cstep, ckind, cidx, power_meter_data, hp_results,
                   gp_results, powerReturned, stats, cycles>>
    /\ UNCHANGED <<regVars, svcVars, parseVars, colVars, lockVars, statVars>>

\* collect_all_heatpumps leaving its loop at the first device that fails
M12_HeatpumpResult ==
    /\ Phase = "heatpumps"
    /\ last # NoLast
    /\ hp_results' = (last.device_id :> last.success) @@ hp_results
    /\ last' = NoLast
    /\ cidx' = IF last.success THEN cidx + 1 ELSE Len(box_ips.heatpump) + 1
    /\ UNCHANGED <<box_ips, power_file, meter_configs, cstep, ckind, power_meter_data, gp_results,
                   powerReturned, boxBegun, stats, cycles>>
    /\ UNCHANGED <<regVars, svcVars, parseVars, colVars, lockVars, statVars>>

\* collect_all_heatpumps, line 287: results[device_id] = success
HeatpumpResult ==
    /\ Phase = "heatpumps"
    /\ last # NoLast
    /\ hp_results' = (last.device_id :> last.success) @@ hp_results
    /\ last' = NoLast
    /\ cidx' = cidx + 1
    /\ UNCHANGED <<box_ips, power_file, meter_configs, cstep, ckind, power_meter_data, gp_results,
                   powerReturned, boxBegun, stats, cycles>>
    /\ UNCHANGED <<regVars, svcVars, parseVars, colVars, lockVars, statVars>>

\* collect_all_heatpumps, lines 289-294: the loop is over, results returned
HeatpumpsDone ==
    /\ Phase = "heatpumps"
    /\ cidx > Len(box_ips.heatpump)
    /\ last = NoLast
    /\ cstep' = cstep + 1
    /\ cidx' = 1
    /\ UNCHANGED <<box_ips, power_file, meter_configs, ckind, power_meter_data, hp_results,
                   gp_results, last, powerReturned, boxBegun, stats, cycles>>
    /\ UNCHANGED <<regVars, svcVars, parseVars, colVars, lockVars, statVars>>

\* collect_all_groundpipes, line 312: the call of collect_groundpipe for the
\* next device of the list
GroundpipeCollect ==
    /\ Phase = "groundpipes"
    /\ cidx <= Len(box_ips.groundpipe)
    /\ last = NoLast
    /\ LET device_id == box_ips.groundpipe[cidx]
       IN  \E s1, s2, s3 \in SubInputs, ins \in InsertOutcomes :
             LET out == collect_groundpipe(device_id, box_ips.enabled[device_id],
                                           s1, s2, s3, ins)
             IN  /\ last' = [device_id |-> device_id, family |-> "groundpipe",
                             enabled |-> box_ips.enabled[device_id],
                             read |-> out.read, success |-> out.success,
                             sensor_data |-> out.sensor_data,
                             subs_ok |-> out.subs_ok, insert |-> out.insert,
                             record |-> out.record]
                 /\ boxBegun' = (boxBegun \/ out.read)
    /\ UNCHANGED <<box_ips, power_file, meter_configs, cstep, ckind, cidx, power_meter_data, hp_results,
                   gp_results, powerReturned, stats, cycles>>
    /\ UNCHANGED <<regVars, svcVars, parseVars, colVars, lockVars, statVars>>

\* collect_all_groundpipes, line 313: results[device_id] = success
GroundpipeResult ==
    /\ Phase = "groundpipes"
    /\ last # NoLast
    /\ gp_results' = (last.device_id :> last.success) @@ gp_results
    /\ last' = NoLast
    /\ cidx' = cidx + 1
    /\ UNCHANGED <<box_ips, power_file, meter_configs, cstep, ckind, power_meter_data, hp_results,
                   powerReturned, boxBegun, stats, cycles>>
    /\ UNCHANGED <<regVars, svcVars, parseVars, colVars, lockVars, statVars>>

\* collect_all_groundpipes, lines 315-320: the loop is over, results returned
GroundpipesDone ==
    /\ Phase = "groundpipes"
    /\ cidx > Len(box_ips.groundpipe)
    /\ last = NoLast
    /\ cstep' = cstep + 1
    /\ cidx' = 1
    /\ UNCHANGED <<box_ips, power_file, meter_configs, ckind, power_meter_data, hp_results,
                   gp_results, last, powerReturned, boxBegun, stats, cycles>>
    /\ UNCHANGED <<regVars, svcVars, parseVars, colVars, lockVars, statVars>>

\* sum(1 for v in results.values() if v)
CountTrue(results) == Cardinality({d \in DOMAIN results : results[d]})

\* sum(1 for v in data.values() if v is not None) over the results dict of
\* the power collector: two counts, and two lists, which are never None
CountNotNone(d) ==
    Cardinality({k \in {"success_count", "total_count"} : d[k] # None})
    + Cardinality({"data", "errors"})

\* the number the service compares with 0 to choose between
\* successful_collections and failed_collections: box service lines 167-173,
\* power service lines 159-161, orchestrator lines 177-200
SuccessCount(kind) ==
    CASE kind = "box"   -> CountTrue(hp_results) + CountTrue(gp_results)
      [] kind = "power" -> CountNotNone(power_meter_data.dict)
      [] kind = "orch"  -> CountNotNone(power_meter_data.dict)
                           + CountTrue(hp_results) + CountTrue(gp_results)

\* the end of the try block with last_error also set when no device succeeded
M32_CycFinish ==
    /\ Phase = "finish"
    /\ stats' = IF SuccessCount(ckind) > 0
                THEN [stats EXCEPT ![ckind].successful_collections = @ + 1]
                ELSE [stats EXCEPT ![ckind].failed_collections = @ + 1,
                                   ![ckind].last_error = TRUE]
    /\ CycleOver
    /\ UNCHANGED <<box_ips, power_file, meter_configs, cycles>>
    /\ UNCHANGED <<regVars, svcVars, parseVars, colVars, lockVars, statVars>>

\* the end of the try block of _collect_once: the counters are updated
CycFinish ==
    /\ Phase = "finish"
    /\ stats' = IF SuccessCount(ckind) > 0
                THEN [stats EXCEPT ![ckind].successful_collections = @ + 1]
                ELSE [stats EXCEPT ![ckind].failed_collections = @ + 1]
    /\ CycleOver
    /\ UNCHANGED <<box_ips, power_file, meter_configs, cycles>>
    /\ UNCHANGED <<regVars, svcVars, parseVars, colVars, lockVars, statVars>>

\* the except block of _collect_once: collect_all of the box collector raised
\* while it read a device list (a list that is null in box_ips.json makes
\* len(heatpumps) raise on line 281 or 307)
CollectAllRaises ==
    /\ Phase \in {"heatpumps", "groundpipes"}
    /\ cidx = 1
    /\ last = NoLast
    /\ stats' = [stats EXCEPT ![ckind].failed_collections = @ + 1,
                              ![ckind].last_error = TRUE]
    /\ CycleOver
    /\ UNCHANGED <<box_ips, power_file, meter_configs, cycles>>
    /\ UNCHANGED <<regVars, svcVars, parseVars, colVars, lockVars, statVars>>

\* the state of the cycle variables in which no cycle has run
CycQuiet ==
    /\ cstep = 0
    /\ ckind = "box"
    /\ cidx = 1
    /\ power_meter_data = NoDict
    /\ hp_results = EmptyResults
    /\ gp_results = EmptyResults
    /\ last = NoLast
    /\ powerReturned = FALSE
    /\ boxBegun = FALSE
    /\ power_file = DefaultPowerConfig
    /\ meter_configs = get_enabled_meters(DefaultPowerConfig)
    /\ stats = [k \in Kinds |-> [total_collections |-> 0,
                                 successful_collections |-> 0,
                                 failed_collections |-> 0,
                                 last_error |-> FALSE]]
    /\ cycles = 0

(***************************************************************************)
(* start, stop and _collection_loop of a service (BoxSensorService,        *)
(* PowerMeterService and DataCollectionService share this code)            *)
(***************************************************************************)
Threads == 1..MaxThreads

Intervals == 1..MaxInterval

\* the threads that have been created
Created == {t \in Threads : tpc[t] # "unborn"}

\* the threads whose _collection_loop has not returned
Alive == {t \in Threads : tpc[t] \notin {"unborn", "exited", "crashed"}}

\* self._thread and self._thread.is_alive()
ThreadIsAlive == svc_thread # None /\ svc_thread \in Alive

\* start(interval) without the test of self._running
M8_Start(iv) ==
    /\ caller = "idle"
    /\ Len(calls) < MaxCalls
    /\ calls' = Append(calls, "start")
    /\ Created # Threads
    /\ LET t == CHOOSE u \in Threads \ Created : \A v \in Threads \ Created : u <= v
       IN  /\ interval' = iv
           /\ stop_event' = FALSE
           /\ svc_running' = TRUE
           /\ svc_thread' = t
           /\ tpc' = [tpc EXCEPT ![t] = "check"]
    /\ UNCHANGED <<remaining, svc_total, caller>>
    /\ UNCHANGED svc_exc
    /\ UNCHANGED sub_reads
    /\ UNCHANGED <<regVars, cycVars, parseVars, colVars, lockVars, statVars>>

\* start(interval), lines 65-97; iv is the interval given, or the configured
\* one when None is given
Start(iv) ==
    /\ caller = "idle"
    /\ Len(calls) < MaxCalls
    /\ calls' = Append(calls, "start")
    /\ IF svc_running
       THEN UNCHANGED <<svc_running, stop_event, svc_thread, interval, tpc>>
       ELSE /\ Created # Threads
            /\ LET t == CHOOSE u \in Threads \ Created :
                            \A v \in Threads \ Created : u <= v
               IN  /\ interval' = iv
                   /\ stop_event' = FALSE
                   /\ svc_running' = TRUE
                   /\ svc_thread' = t
                   /\ tpc' = [tpc EXCEPT ![t] = "check"]
    /\ UNCHANGED <<remaining, svc_total, caller>>
    /\ UNCHANGED svc_exc
    /\ UNCHANGED sub_reads
    /\ UNCHANGED <<regVars, cycVars, parseVars, colVars, lockVars, statVars>>

\* stop(), lines 99-117: up to the call of join
Stop ==
    /\ caller = "idle"
    /\ Len(calls) < MaxCalls
    /\ calls' = Append(calls, "stop")
    /\ IF ~svc_running
       THEN UNCHANGED <<svc_running, stop_event, caller>>
       ELSE /\ stop_event' = TRUE
            /\ svc_running' = FALSE
            /\ caller' = IF ThreadIsAlive THEN "joining" ELSE "idle"
    /\ UNCHANGED <<svc_thread, interval, tpc, remaining, svc_total>>
    /\ UNCHANGED svc_exc
    /\ UNCHANGED sub_reads
    /\ UNCHANGED <<regVars, cycVars, parseVars, colVars, lockVars, statVars>>

\* join(timeout=5) returns because the thread has ended
JoinReturns ==
    /\ caller = "joining"
    /\ ~ThreadIsAlive
    /\ caller' = "idle"
    /\ UNCHANGED <<svc_running, stop_event, svc_thread, interval, tpc, remaining,
                   svc_total, calls>>
    /\ UNCHANGED svc_exc
    /\ UNCHANGED sub_reads
    /\ UNCHANGED <<regVars, cycVars, parseVars, colVars, lockVars, statVars>>

\* join(timeout=5) returns after 5 seconds: the thread is still inside a
\* collection cycle
JoinTimesOut ==
    /\ caller = "joining"
    /\ tpc[svc_thread] = "cycle"
    /\ caller' = "idle"
    /\ UNCHANGED <<svc_running, stop_event, svc_thread, interval, tpc, remaining,
                   svc_total, calls>>
    /\ UNCHANGED svc_exc
    /\ UNCHANGED sub_reads
    /\ UNCHANGED <<regVars, cycVars, parseVars, colVars, lockVars, statVars>>

\* _collection_loop, line 127: while not self._stop_event.is_set()
LoopCheck(t) ==
    /\ tpc[t] = "check"
    /\ IF stop_event
       THEN tpc' = [tpc EXCEPT ![t] = "exited"]
       ELSE /\ svc_total < MaxLoopCycles
            /\ tpc' = [tpc EXCEPT ![t] = "begin"]
    /\ UNCHANGED <<svc_running, stop_event, svc_thread, interval, remaining,
                   svc_total, caller, calls>>
    /\ UNCHANGED svc_exc
    /\ UNCHANGED sub_reads
    /\ UNCHANGED <<regVars, cycVars, parseVars, colVars, lockVars, statVars>>

\* _collection_loop, line 130, and _collect_once, line 160: the cycle begins
CycleBegin(t) ==
    /\ tpc[t] = "begin"
    /\ svc_total' = svc_total + 1
    /\ tpc' = [tpc EXCEPT ![t] = "cycle"]
    /\ UNCHANGED <<svc_running, stop_event, svc_thread, interval, remaining,
                   caller, calls>>
    /\ UNCHANGED svc_exc
    /\ UNCHANGED sub_reads
    /\ UNCHANGED <<regVars, cycVars, parseVars, colVars, lockVars, statVars>>

\* the sub-reads of one cycle: collect_all visits every configured device
\* (collector.py, 283-287 and 310-314) and read_all_sensors makes three
\* sub-reads for it (reader.py, 345, 353, 360)
SubReadsPerCycle == 3 * Cardinality(BoxDevices)

\* the cycle begins its next sub-read: read_temperature_1, read_temperature_2
\* or read_flow of the device in turn; neither read_all_sensors nor the
\* loops of the collector look at the stop event
SubRead(t) ==
    /\ tpc[t] = "cycle"
    /\ sub_reads[t] < SubReadsPerCycle
    /\ sub_reads' = [sub_reads EXCEPT ![t] = sub_reads[t] + 1]
    /\ UNCHANGED <<svc_running, stop_event, svc_thread, interval, tpc, remaining,
                   svc_total, caller, calls, svc_exc>>
    /\ UNCHANGED <<regVars, cycVars, parseVars, colVars, lockVars, statVars>>

\* how the body of the try block of _collect_once ends before the callback
CycleOutcomes == {"ok", "raises"}

\* on_collection_complete / on_collection_error: not set, or set to a
\* function that returns or raises
Callbacks == {"unset", "returns", "raises"}

\* an exception leaves the call of callback cb; guarded: the call stands in
\* try: ... except: pass
CallEscapes(cb, guarded) == cb = "raises" /\ ~guarded

\* _collect_once with the call of on_collection_error outside try/except
M15_collect_once_raises(body, on_complete, on_error) ==
    LET complete_escapes == body = "ok" /\ CallEscapes(on_complete, TRUE)
        in_except == body = "raises" \/ complete_escapes
    IN  in_except /\ CallEscapes(on_error, FALSE)

\* an exception leaves _collect_once, lines 161-204: the completion callback
\* is called inside the try block under try/except (186-190), the except
\* block calls the error callback under try/except (198-202)
collect_once_raises(body, on_complete, on_error) ==
    LET complete_escapes == body = "ok" /\ CallEscapes(on_complete, TRUE)
        in_except == body = "raises" \/ complete_escapes
    IN  in_except /\ CallEscapes(on_error, TRUE)

\* an exception leaves the body of the while loop of _collection_loop, lines
\* 128-140: except Exception calls the error callback under try/except
loop_body_raises(body, on_complete, on_error) ==
    collect_once_raises(body, on_complete, on_error)
        /\ CallEscapes(on_error, TRUE)

\* what was raised during a _collect_once
Raised(body, on_complete, on_error) ==
    CASE body = "ok" /\ on_complete = "raises" -> "on_complete"
      [] body = "raises" /\ on_error = "raises" -> "cycle_and_on_error"
      [] body = "raises" /\ on_error # "raises" -> "cycle"
      [] OTHER -> "nothing"

NoExc == [what |-> "nothing", by |-> "nobody"]

\* _collect_once returns or raises, and the loop calls
\* self._stop_event.wait(self.interval), line 143
CycleEnd(t) ==
    /\ tpc[t] = "cycle"
    /\ \E body \in CycleOutcomes, on_complete, on_error \in Callbacks :
         /\ body = "ok" => sub_reads[t] = SubReadsPerCycle
         /\ tpc' = [tpc EXCEPT ![t] =
                       IF loop_body_raises(body, on_complete, on_error)
                       THEN "crashed" ELSE "wait"]
         /\ svc_exc' = [what |-> Raised(body, on_complete, on_error),
                        by |-> "loop"]
    /\ remaining' = [remaining EXCEPT ![t] = interval]
    /\ sub_reads' = [sub_reads EXCEPT ![t] = 0]
    /\ UNCHANGED <<svc_running, stop_event, svc_thread, interval, svc_total,
                   caller, calls>>
    /\ UNCHANGED <<regVars, cycVars, parseVars, colVars, lockVars, statVars>>

\* collect_now(), lines 206-217: _collect_once on the caller's thread
CollectNow ==
    /\ caller = "idle"
    /\ svc_total < MaxLoopCycles
    /\ svc_total' = svc_total + 1
    /\ \E body \in CycleOutcomes, on_complete, on_error \in Callbacks :
         /\ caller' = IF collect_once_raises(body, on_complete, on_error)
                      THEN "raised" ELSE "idle"
         /\ svc_exc' = [what |-> Raised(body, on_complete, on_error),
                        by |-> "collect_now"]
    /\ UNCHANGED <<svc_running, stop_event, svc_thread, interval, tpc, remaining,
                   calls>>
    /\ UNCHANGED sub_reads
    /\ UNCHANGED <<regVars, cycVars, parseVars, colVars, lockVars, statVars>>

\* a wait with the event clear and no time left to run is over
Waiting == {t \in Threads : tpc[t] = "wait" /\ remaining[t] > 0}

\* the clock advances by one tick
Tick ==
    /\ Waiting # {}
    /\ remaining' = [t \in Threads |->
                        IF t \in Waiting THEN remaining[t] - 1 ELSE remaining[t]]
    /\ UNCHANGED <<svc_running, stop_event, svc_thread, interval, tpc, svc_total,
                   caller, calls>>
    /\ UNCHANGED svc_exc
    /\ UNCHANGED sub_reads
    /\ UNCHANGED <<regVars, cycVars, parseVars, colVars, lockVars, statVars>>

\* time.sleep(self.interval) in the place of self._stop_event.wait
M9_WaitReturns(t) ==
    /\ tpc[t] = "wait"
    /\ remaining[t] = 0
    /\ tpc' = [tpc EXCEPT ![t] = "check"]
    /\ remaining' = [remaining EXCEPT ![t] = 0]
    /\ UNCHANGED <<svc_running, stop_event, svc_thread, interval, svc_total,
                   caller, calls>>
    /\ UNCHANGED svc_exc
    /\ UNCHANGED sub_reads
    /\ UNCHANGED <<regVars, cycVars, parseVars, colVars, lockVars, statVars>>

\* self._stop_event.wait(self.interval) returns: the event is set, or the
\* interval has passed
WaitReturns(t) ==
    /\ tpc[t] = "wait"
    /\ stop_event \/ remaining[t] = 0
    /\ tpc' = [tpc EXCEPT ![t] = "check"]
    /\ remaining' = [remaining EXCEPT ![t] = 0]
    /\ UNCHANGED <<svc_running, stop_event, svc_thread, interval, svc_total,
                   caller, calls>>
    /\ UNCHANGED svc_exc
    /\ UNCHANGED sub_reads
    /\ UNCHANGED <<regVars, cycVars, parseVars, colVars, lockVars, statVars>>

\* __init__, lines 45-47
SvcInit ==
    /\ svc_running = FALSE
    /\ stop_event = FALSE
    /\ svc_thread = None
    /\ interval = None
    /\ tpc = [t \in Threads |-> "unborn"]
    /\ remaining = [t \in Threads |-> 0]
    /\ svc_total = 0
    /\ caller = "idle"
    /\ calls = <<>>
    /\ svc_exc = NoExc
    /\ sub_reads = [t \in Threads |-> 0]

SvcNext ==
    \/ \E iv \in Intervals : Start(iv)
    \/ Stop
    \/ JoinReturns
    \/ JoinTimesOut
    \/ \E t \in Threads : LoopCheck(t)
    \/ \E t \in Threads : CycleBegin(t)
    \/ \E t \in Threads : SubRead(t)
    \/ \E t \in Threads : CycleEnd(t)
    \/ \E t \in Threads : WaitReturns(t)
    \/ Tick
    \/ CollectNow

(***************************************************************************)
(* Specifications                                                          *)
(***************************************************************************)
(***************************************************************************)
(* Register conversions: sensors/box/protocols.py, sensors/power/reader.py *)
(***************************************************************************)
\* a 16-bit register of a Modbus response
Words == 0..65535

\* registers used in lists of two: the boundary values and the words of the
\* documented examples (0x0007, 0x00AA, 0x00C5, 0x42F6, 0x7FFF, 0x8000,
\* 0xE666, 0xF831, 0xFEC6, 0xFF9C, 0xFFFF)
SampleWords == {0, 1, 7, 170, 197, 17142, 32767, 32768, 58982, 63537, 65222,
                65436, 65535}

\* registers used in lists of three and more (the temperature response
\* 0x00C5 0xF831 0x0000)
FewWords == {0, 197, 63537}

\* the register lists a response can carry: none, one register of any
\* value, two sample registers, three or more
RegisterLists ==
    {<<>>} \cup {<<w>> : w \in Words}
           \cup {<<a, b>> : a, b \in SampleWords}
           \cup UNION {[1..n -> FewWords] : n \in 3..MaxRegs}

\* the index arguments of parse_temperature
Indexes == 0..2

\* a decimal number with two places, as round(x, 2) returns it: sign, whole
\* part and hundredths
Hundredths(h) ==
    [none |-> FALSE, kind |-> "num", neg |-> h < 0,
     whole |-> (IF h < 0 THEN -h ELSE h) \div 100,
     cents |-> (IF h < 0 THEN -h ELSE h) % 100]

\* raw * 0.01 for raw = (hi << 16) | lo, a value of up to 32 bits:
\* 65536 = 655 * 100 + 36
Scale32(hi, lo) ==
    [none |-> FALSE, kind |-> "num", neg |-> FALSE,
     whole |-> hi * 655 + (hi * 36 + lo) \div 100,
     cents |-> (hi * 36 + lo) % 100]

\* parse_temperature without lines 91-92: the register taken as unsigned
M23_parse_temperature(registers, index) ==
    IF Len(registers) = 0 \/ Len(registers) <= index
    THEN NoneRec
    ELSE Hundredths(registers[index + 1] * 10)

\* parse_temperature(registers, index), lines 81-103
parse_temperature(registers, index) ==
    IF Len(registers) = 0 \/ Len(registers) <= index
    THEN NoneRec
    ELSE LET raw_value == registers[index + 1]
             signed == IF raw_value >= 32768 THEN raw_value - 65536 ELSE raw_value
         IN  Hundredths(signed * 10)

\* parse_flow with the first register as the high word
M22_parse_flow(registers) ==
    IF Len(registers) < 2
    THEN NoneRec
    ELSE Scale32(registers[1], registers[2])

\* parse_flow(registers), lines 136-160: raw_value = (low_word << 16) |
\* high_word, where high_word = registers[0] and low_word = registers[1]
parse_flow(registers) ==
    IF Len(registers) < 2
    THEN NoneRec
    ELSE LET high_word == registers[1]
             low_word == registers[2]
         IN  Scale32(low_word, high_word)

(***************************************************************************)
(* Energy conversions: sensors/power/protocols.py, sensors/power/reader.py *)
(***************************************************************************)
\* 2^n
RECURSIVE Pow2(_)
Pow2(n) == IF n = 0 THEN 1 ELSE 2 * Pow2(n - 1)

\* num / den rounded to the nearest integer, a tie to the even one, as
\* round(x, 2) and the conversion to float32 round an exact binary value
RoundDiv(num, den) ==
    LET q == num \div den
        r == num % den
    IN  IF 2 * r > den \/ (2 * r = den /\ q % 2 = 1) THEN q + 1 ELSE q

\* an energy the meter holds: sign, whole kWh and ten-thousandths of a kWh
Energy(neg, int, frac) == [none |-> FALSE, neg |-> neg, int |-> int, frac |-> frac]

\* the whole parts of the energies encoded: small values, the documented
\* 123.45 and 9999.99, and values on both sides of 2^17, where a float32
\* step grows from 1/128 to 1/64
WholeParts == {0, 123, 9999, 131071, 131072, 200000}

\* every ten-thousandth of a kWh
Fractions == 0..9999

\* the non-negative energies encoded, and some negative ones
EnergyValues ==
    {Energy(FALSE, i, f) : i \in WholeParts, f \in Fractions}
    \cup {Energy(TRUE, i, f) : i \in {0, 123, 200000}, f \in {1, 4500, 9999}}

\* q + r / 10000 doubled until q has 24 bits: the significand of the
\* float32 before rounding, and the number k of doublings
RECURSIVE Normalise(_, _, _)
Normalise(q, r, k) ==
    IF q >= 8388608
    THEN [q |-> q, r |-> r, k |-> k]
    ELSE Normalise(2 * q + (2 * r) \div 10000, (2 * r) % 10000, k + 1)

\* struct.pack('>f', v) split into [high word, low word]: v is rounded to
\* the nearest float32 (sign, 8-bit exponent, 23-bit fraction)
Float32Encode(v) ==
    IF v.int = 0 /\ v.frac = 0
    THEN <<(IF v.neg THEN 32768 ELSE 0), 0>>
    ELSE LET n == Normalise(v.int, v.frac, 0)
             up == n.r > 5000 \/ (n.r = 5000 /\ n.q % 2 = 1)
             carry == up /\ n.q = 16777215
             significand == IF carry THEN 8388608 ELSE IF up THEN n.q + 1 ELSE n.q
             exponent == 150 - n.k + (IF carry THEN 1 ELSE 0)
             fraction == significand - 8388608
         IN  <<(IF v.neg THEN 32768 ELSE 0) + exponent * 128 + fraction \div 65536,
               fraction % 65536>>

\* the value of a float32 that is neither a number of two places nor zero
Special(kind, neg) ==
    [none |-> FALSE, kind |-> kind, neg |-> neg, whole |-> 0, cents |-> 0]

\* round(abs(x), 2) in hundredths, for the float32 x with the given exponent
\* field (1..150) and 24-bit significand: x = significand * 2^(exponent - 150)
RoundedHundredths(exponent, significand) ==
    LET s == 150 - exponent
    IN  IF s = 0 THEN significand * 100
        ELSE IF s <= 30 THEN RoundDiv(significand * 100, Pow2(s))
        ELSE IF s = 31 /\ significand * 100 > 1073741824 THEN 1
        ELSE 0

\* parse_power_meter without lines 88-90: a negative energy is kept
M26_parse_power_meter(registers) ==
    IF Len(registers) < 2
    THEN NoneRec
    ELSE LET high_word == registers[1]
             low_word == registers[2]
             neg == high_word >= 32768
             exponent == (high_word % 32768) \div 128
             fraction == (high_word % 128) * 65536 + low_word
         IN  IF exponent = 255
             THEN IF fraction # 0 THEN Special("nan", neg) ELSE Special("inf", neg)
             ELSE IF exponent > 150 THEN Special("over_2p24", neg)
             ELSE IF exponent = 0 THEN Hundredths(0)
             ELSE Hundredths((IF neg THEN -1 ELSE 1)
                                * RoundedHundredths(exponent, 8388608 + fraction))

\* parse_power_meter(registers), lines 64-93: the two registers, high word
\* first, are unpacked as a big-endian float32; a negative energy becomes
\* 0.0; the result is rounded to two places. A finite value of 2^24 or more
\* is not computed here.
parse_power_meter(registers) ==
    IF Len(registers) < 2
    THEN NoneRec
    ELSE LET high_word == registers[1]
             low_word == registers[2]
             neg == high_word >= 32768
             exponent == (high_word % 32768) \div 128
             fraction == (high_word % 128) * 65536 + low_word
         IN  IF exponent = 255 /\ fraction # 0 THEN Special("nan", neg)
             ELSE IF neg THEN Hundredths(0)
             ELSE IF exponent = 255 THEN Special("inf", FALSE)
             ELSE IF exponent > 150 THEN Special("over_2p24", FALSE)
             ELSE IF exponent = 0 THEN Hundredths(0)
             ELSE Hundredths(RoundedHundredths(exponent, 8388608 + fraction))

\* the encodings of the energy registers among the configured meters:
\* (a) float32, (b) unsigned 32-bit integer of hundredths
Variants == {"float32", "uint32"}

\* read_total_energy taking a missing low word as zero
M25_read_total_energy(registers, variant) ==
    IF Len(registers) = 0
    THEN NoneRec
    ELSE Scale32(registers[1], IF Len(registers) < 2 THEN 0 ELSE registers[2])

\* read_total_energy, lines 129-154: high_word = result.registers[0],
\* low_word = result.registers[1] (an IndexError is caught and None
\* returned), raw_value = (high_word << 16) | low_word, raw_value * 0.01;
\* the meter's configuration has no encoding variant and none is consulted
read_total_energy(registers, variant) ==
    IF Len(registers) < 2
    THEN NoneRec
    ELSE LET high_word == registers[1]
             low_word == registers[2]
         IN  Scale32(high_word, low_word)

\* protocols self-test line 144: parse_power_meter is applied to the
\* registers of a meter's response
ParsePowerMeter ==
    /\ p_fn = "none"
    /\ p_fn' = "parse_power_meter"
    /\ p_out' = parse_power_meter(p_regs)
    /\ UNCHANGED <<p_regs, p_arg, p_val, p_model>>
    /\ UNCHANGED <<regVars, cycVars, svcVars, colVars, lockVars, statVars>>

\* read_all_meters line 182: read_total_energy converts the response of a
\* meter of the given variant
ReadTotalEnergy(variant) ==
    /\ p_fn = "none"
    /\ p_fn' = "read_total_energy"
    /\ p_model' = variant
    /\ p_out' = read_total_energy(p_regs, variant)
    /\ UNCHANGED <<p_regs, p_arg, p_val>>
    /\ UNCHANGED <<regVars, cycVars, svcVars, colVars, lockVars, statVars>>

\* _read_temperature line 225 / protocols self-test: parse_temperature is
\* applied to the registers of a response
ParseTemperature(index) ==
    /\ p_fn = "none"
    /\ p_val = NoneRec
    /\ p_fn' = "parse_temperature"
    /\ p_arg' = index
    /\ p_out' = parse_temperature(p_regs, index)
    /\ UNCHANGED <<p_regs, p_val, p_model>>
    /\ UNCHANGED <<regVars, cycVars, svcVars, colVars, lockVars, statVars>>

\* read_flow line 294: parse_flow is applied to the registers of a response
ParseFlow ==
    /\ p_fn = "none"
    /\ p_val = NoneRec
    /\ p_fn' = "parse_flow"
    /\ p_arg' = 0
    /\ p_out' = parse_flow(p_regs)
    /\ UNCHANGED <<p_regs, p_val, p_model>>
    /\ UNCHANGED <<regVars, cycVars, svcVars, colVars, lockVars, statVars>>

\* no response has been converted
ParseQuiet ==
    /\ p_fn = "none"
    /\ p_arg = 0
    /\ p_out = NoneRec
    /\ p_model = "none"

\* no response at all
ParseIdle == ParseQuiet /\ p_regs = <<>> /\ p_val = NoneRec

ParseNext ==
    \/ \E index \in Indexes : ParseTemperature(index)
    \/ ParseFlow
    \/ ParsePowerMeter
    \/ \E variant \in Variants : ReadTotalEnergy(variant)

(***************************************************************************)
(* BoxSensorCollector: the reader cache (sensors/box/collector.py)         *)
(***************************************************************************)
\* the threads that run collect_all on the collector of one service: the
\* background loop and the caller of collect_now
Collectors == {"loop", "manual"}

\* the thread that runs collect_all of the power collector
MeterThreads == {"meter"}

ColThreads == Collectors \cup MeterThreads

\* the devices in the order collect_all visits them; they share one endpoint
DeviceList == HeatpumpIds \o GroundpipeIds

\* sensors.temp1_slave_id, temp2_slave_id, flow_slave_id of each device in
\* config/box_ips.json
SlaveIds ==
    [d \in BoxDevices |->
        CASE d = "HP_1" -> <<1, 2, 3>>
          [] d = "HP_2" -> <<4, 5, 6>>
          [] OTHER      -> <<7, 8, 9>>]

\* no reader is cached under a key
NoReader == <<>>

\* update_slave_ids(temp1_slave_id, temp2_slave_id, flow_slave_id), lines
\* 437-447: the three fields of the reader are assigned
update_slave_ids(reader, ids) == ids

\* _get_or_create_reader, lines 77-100: self.readers after the call; the cache
\* key is the endpoint, a cached reader gets the slave ids of the device
_get_or_create_reader(cache, e, ids) ==
    IF cache[e] # NoReader
    THEN IF cache[e] # ids
         THEN [cache EXCEPT ![e] = update_slave_ids(cache[e], ids)]
         ELSE cache
    ELSE [cache EXCEPT ![e] = ids]

\* what a sub-read meets: get_client returns a client or None; the
\* transaction returns registers or an error response, or raises (a transport
\* error); the conversion returns a value or None, or raises
HandleResults == {"client", "none"}

TxnResults == {"registers", "error_response", "raises"}

DecodeResults == {"value", "none", "raises"}

\* _read_temperature with the transaction and the conversion outside the try
\* block
M33__read_temperature(handle, txn, decode) ==
    LET issued == handle = "client"
        decoded == issued /\ txn = "registers"
    IN  [issued |-> issued,
         result |-> IF decoded /\ decode = "value" THEN "value" ELSE "none",
         raised |-> \/ issued /\ Escapes(txn, FALSE)
                    \/ decoded /\ Escapes(decode, FALSE)]

\* _read_temperature, reader.py 188-239: without a client None is returned
\* before any transaction (193-196); the transaction (206-210), the test of
\* isError (215-220) and parse_temperature (225) stand in the try block whose
\* except returns None (234-239)
_read_temperature(handle, txn, decode) ==
    LET issued == handle = "client"
        decoded == issued /\ txn = "registers"
    IN  [issued |-> issued,
         result |-> IF decoded /\ decode = "value" THEN "value" ELSE "none",
         raised |-> \/ issued /\ Escapes(txn, TRUE)
                    \/ decoded /\ Escapes(decode, TRUE)]

\* read_flow, reader.py 260-308: the same structure with parse_flow
read_flow(handle, txn, decode) ==
    LET issued == handle = "client"
        decoded == issued /\ txn = "registers"
    IN  [issued |-> issued,
         result |-> IF decoded /\ decode = "value" THEN "value" ELSE "none",
         raised |-> \/ issued /\ Escapes(txn, TRUE)
                    \/ decoded /\ Escapes(decode, TRUE)]

\* read_total_energy, power/reader.py 113-158: the client is not tested;
\* client.read_holding_registers on None raises inside the try block before
\* anything is sent, and the except returns None (156-158)
read_total_energy_outcome(handle, txn, decode) ==
    LET issued == handle = "client"
        decoded == issued /\ txn = "registers"
        no_client == IF issued THEN "returns" ELSE "raises"
    IN  [issued |-> issued,
         result |-> IF decoded /\ decode = "value" THEN "value" ELSE "none",
         raised |-> \/ Escapes(no_client, TRUE)
                    \/ issued /\ Escapes(txn, TRUE)
                    \/ decoded /\ Escapes(decode, TRUE)]

\* the sub-read of read_all_sensors in position sub
SubReadOutcome(sub, handle, txn, decode) ==
    IF sub = 3 THEN read_flow(handle, txn, decode)
    ELSE _read_temperature(handle, txn, decode)

NoSent == [device |-> "none", sub |-> 0, slave |-> 0, handle |-> "unasked",
           issued |-> FALSE, result |-> "none", raised |-> FALSE]

\* the record of a sub-read: what get_client returned, whether a transaction
\* was issued, what the method returned and whether it raised
Sent(device, sub, slave, handle, out) ==
    [device |-> device, sub |-> sub, slave |-> slave, handle |-> handle,
     issued |-> out.issued, result |-> out.result, raised |-> out.raised]

\* _collect_once / collect_now: thread t enters collect_all
ColBegin(t) ==
    /\ col_pc[t] = "idle"
    /\ col_pc' = [col_pc EXCEPT ![t] = "collect"]
    /\ col_dev' = [col_dev EXCEPT ![t] = 1]
    /\ UNCHANGED <<readers, col_sub, col_sent>>
    /\ UNCHANGED <<regVars, cycVars, svcVars, parseVars, lockVars, statVars>>

\* collect_heatpump / collect_groundpipe, lines 128-146: the reader of the
\* device's endpoint is fetched from the cache
GetOrCreateReader(t, e) ==
    /\ col_pc[t] = "collect"
    /\ readers' = _get_or_create_reader(readers, e, SlaveIds[DeviceList[col_dev[t]]])
    /\ col_pc' = [col_pc EXCEPT ![t] = "read"]
    /\ col_sub' = [col_sub EXCEPT ![t] = 1]
    /\ UNCHANGED <<col_dev, col_sent>>
    /\ UNCHANGED <<regVars, cycVars, svcVars, parseVars, lockVars, statVars>>

\* read_all_sensors, lines 345-360: the next sub-read takes the slave id the
\* reader holds at that moment (reader.py 151, 164, 278) and runs
ColSubRead(t, e) ==
    /\ col_pc[t] = "read"
    /\ \E handle \in HandleResults, txn \in TxnResults, decode \in DecodeResults :
         col_sent' = [col_sent EXCEPT ![t] =
                         Sent(DeviceList[col_dev[t]], col_sub[t],
                              readers[e][col_sub[t]], handle,
                              SubReadOutcome(col_sub[t], handle, txn, decode))]
    /\ IF col_sub[t] < 3
       THEN /\ col_sub' = [col_sub EXCEPT ![t] = col_sub[t] + 1]
            /\ UNCHANGED <<col_pc, col_dev>>
       ELSE /\ col_sub' = [col_sub EXCEPT ![t] = 1]
            /\ IF col_dev[t] < Len(DeviceList)
               THEN /\ col_dev' = [col_dev EXCEPT ![t] = col_dev[t] + 1]
                    /\ col_pc' = [col_pc EXCEPT ![t] = "collect"]
               ELSE /\ col_dev' = [col_dev EXCEPT ![t] = 1]
                    /\ col_pc' = [col_pc EXCEPT ![t] = "idle"]
    /\ UNCHANGED readers
    /\ UNCHANGED <<regVars, cycVars, svcVars, parseVars, lockVars, statVars>>

\* slave_id of each meter in config/power_meter_config.json
MeterSlaveIds == [d \in SeqToSet(Meters) |-> IF d = "HP_1" THEN 11 ELSE 12]

\* PowerMeterCollector.collect_all: the thread enters read_all_meters
MeterBegin(t) ==
    /\ col_pc[t] = "idle"
    /\ col_pc' = [col_pc EXCEPT ![t] = "read"]
    /\ col_dev' = [col_dev EXCEPT ![t] = 1]
    /\ UNCHANGED <<readers, col_sub, col_sent>>
    /\ UNCHANGED <<regVars, cycVars, svcVars, parseVars, lockVars, statVars>>

\* read_all_meters, power/reader.py 175-203: read_total_energy of the meter
\* in turn
MeterRead(t) ==
    /\ col_pc[t] = "read"
    /\ \E handle \in HandleResults, txn \in TxnResults, decode \in DecodeResults :
         col_sent' = [col_sent EXCEPT ![t] =
                         Sent(Meters[col_dev[t]], 1, MeterSlaveIds[Meters[col_dev[t]]], handle,
                              read_total_energy_outcome(handle, txn, decode))]
    /\ IF col_dev[t] < Len(Meters)
       THEN /\ col_dev' = [col_dev EXCEPT ![t] = col_dev[t] + 1]
            /\ UNCHANGED col_pc
       ELSE /\ col_dev' = [col_dev EXCEPT ![t] = 1]
            /\ col_pc' = [col_pc EXCEPT ![t] = "idle"]
    /\ UNCHANGED <<readers, col_sub>>
    /\ UNCHANGED <<regVars, cycVars, svcVars, parseVars, lockVars, statVars>>

\* BoxSensorCollector.__init__, line 43
ColIdle ==
    /\ readers = [e \in Endpoints |-> NoReader]
    /\ col_pc = [t \in ColThreads |-> "idle"]
    /\ col_dev = [t \in ColThreads |-> 1]
    /\ col_sub = [t \in ColThreads |-> 1]
    /\ col_sent = [t \in ColThreads |-> NoSent]

ColNext ==
    \/ \E t \in Collectors : ColBegin(t)
    \/ \E t \in Collectors, e \in Endpoints : GetOrCreateReader(t, e)
    \/ \E t \in Collectors, e \in Endpoints : ColSubRead(t, e)
    \/ \E t \in MeterThreads : MeterBegin(t)
    \/ \E t \in MeterThreads : MeterRead(t)

(***************************************************************************)
(* ModbusTcpManager: self._lock and the endpoint locks, one endpoint       *)
(* (core/modbus_tcp_manager.py, sensors/box/reader.py)                     *)
(***************************************************************************)
\* the threads that make sub-reads, and the thread that calls close_all
LkReaders == {"b1", "b2"}

LkClosers == {"closer"}

LkThreads == LkReaders \cup LkClosers

\* the positions in which a thread holds self._lock: inside the with block of
\* get_client, get_lock or close_all
InRegistry == {"gc_in", "gl_in", "ca_in"}

\* the positions in which a thread is blocked on a lock
Blocked == {"gc_wait", "gl_wait", "ca_wait", "ep_wait"}

\* a lock object that no map and no thread refers to: threading.Lock() makes
\* a new object, an unreferenced one can take its place
FreeLocks(t) ==
    {l \in LockIds : /\ lk_lock # l
                     /\ ep_owner[l] = NoThread
                     /\ \A u \in LkThreads \ {t} : lk_target[u] # l}

NewLock(t) == CHOOSE l \in FreeLocks(t) : \A k \in FreeLocks(t) : l <= k

\* a thread begins get_client (reader.py 192, 264): it requests self._lock
LkCallGetClient(t) ==
    /\ lk_pc[t] = "idle"
    /\ lk_pc' = [lk_pc EXCEPT ![t] = "gc_wait"]
    /\ lk_stale' = [lk_stale EXCEPT ![t] = FALSE]
    /\ UNCHANGED <<reg_lock, lk_client, lk_lock, ep_owner, lk_target>>
    /\ UNCHANGED <<regVars, cycVars, svcVars, parseVars, colVars, statVars>>

\* "with self._lock:" is entered: lines 102, 158, 183
LkEnter(t) ==
    /\ lk_pc[t] \in {"gc_wait", "gl_wait", "ca_wait"}
    /\ reg_lock = NoThread
    /\ reg_lock' = t
    /\ lk_pc' = [lk_pc EXCEPT ![t] = CASE lk_pc[t] = "gc_wait" -> "gc_in"
                                       [] lk_pc[t] = "gl_wait" -> "gl_in"
                                       [] OTHER -> "ca_in"]
    /\ UNCHANGED <<lk_client, lk_lock, ep_owner, lk_target, lk_stale>>
    /\ UNCHANGED <<regVars, cycVars, svcVars, parseVars, colVars, statVars>>

\* leaving the with block releases self._lock
LkLeave(t) == reg_lock' = IF reg_lock = t THEN NoThread ELSE reg_lock

\* the threads whose client is the registered one lose that when it is
\* unregistered
Unregistered(t) ==
    lk_stale' = [u \in LkThreads |->
                    IF u # t /\ lk_pc[u] \in {"gl_wait", "gl_in", "ep_wait", "txn"}
                    THEN TRUE ELSE lk_stale[u]]

\* the body of get_client, lines 103-143, and the end of its with block: a
\* connected client is returned; else the client and the lock are deleted
\* and a connect is tried, which registers a new client and a new lock
LkGetClient(t) ==
    /\ lk_pc[t] = "gc_in"
    /\ IF lk_client = "connected"
       THEN /\ lk_pc' = [lk_pc EXCEPT ![t] = "gl_wait"]
            /\ UNCHANGED <<lk_client, lk_lock, lk_stale>>
       ELSE \E co \in ConnectOutcomes :
              /\ IF connect_ok(co)
                 THEN /\ lk_client' = "connected"
                      /\ lk_lock' = NewLock(t)
                      /\ lk_pc' = [lk_pc EXCEPT ![t] = "gl_wait"]
                 ELSE /\ lk_client' = "absent"
                      /\ lk_lock' = IF lk_client = "lost" THEN None ELSE lk_lock
                      /\ lk_pc' = [lk_pc EXCEPT ![t] = "idle"]
              /\ IF lk_client = "lost" THEN Unregistered(t) ELSE UNCHANGED lk_stale
    /\ LkLeave(t)
    /\ UNCHANGED <<ep_owner, lk_target>>
    /\ UNCHANGED <<regVars, cycVars, svcVars, parseVars, colVars, statVars>>

\* the body of get_lock, lines 159-161, and the end of its with block
LkGetLock(t) ==
    /\ lk_pc[t] = "gl_in"
    /\ lk_lock' = IF lk_lock = None THEN NewLock(t) ELSE lk_lock
    /\ lk_target' = [lk_target EXCEPT ![t] = lk_lock']
    /\ lk_pc' = [lk_pc EXCEPT ![t] = "ep_wait"]
    /\ LkLeave(t)
    /\ UNCHANGED <<lk_client, ep_owner, lk_stale>>
    /\ UNCHANGED <<regVars, cycVars, svcVars, parseVars, colVars, statVars>>

\* "with lock:" is entered, reader.py 201, 273: the endpoint lock is acquired
\* and the transaction is issued
LkAcquire(t) ==
    /\ lk_pc[t] = "ep_wait"
    /\ ep_owner[lk_target[t]] = NoThread
    /\ ep_owner' = [ep_owner EXCEPT ![lk_target[t]] = t]
    /\ lk_pc' = [lk_pc EXCEPT ![t] = "txn"]
    /\ UNCHANGED <<reg_lock, lk_client, lk_lock, lk_target, lk_stale>>
    /\ UNCHANGED <<regVars, cycVars, svcVars, parseVars, colVars, statVars>>

\* the transaction ends in the with block without the release of the lock
\* when it ended with a transport error
M40_LkTxnEnd(t) ==
    /\ lk_pc[t] = "txn"
    /\ \E outcome \in TxnOutcomes :
         /\ lk_client' = IF outcome = "transport_error" /\ ~lk_stale[t]
                            /\ lk_client = "connected"
                         THEN "lost" ELSE lk_client
         /\ ep_owner' = IF outcome = "transport_error" THEN ep_owner
                        ELSE [ep_owner EXCEPT ![lk_target[t]] = NoThread]
    /\ lk_target' = [lk_target EXCEPT ![t] = None]
    /\ lk_pc' = [lk_pc EXCEPT ![t] = "idle"]
    /\ UNCHANGED <<reg_lock, lk_lock, lk_stale>>
    /\ UNCHANGED <<regVars, cycVars, svcVars, parseVars, colVars, statVars>>

\* the transaction returns or raises, reader.py 206-239: the with block is
\* left and the endpoint lock released; a transport error on the registered
\* client leaves it not connected
LkTxnEnd(t) ==
    /\ lk_pc[t] = "txn"
    /\ \E outcome \in TxnOutcomes :
         lk_client' = IF outcome = "transport_error" /\ ~lk_stale[t]
                         /\ lk_client = "connected"
                      THEN "lost" ELSE lk_client
    /\ ep_owner' = [ep_owner EXCEPT ![lk_target[t]] = NoThread]
    /\ lk_target' = [lk_target EXCEPT ![t] = None]
    /\ lk_pc' = [lk_pc EXCEPT ![t] = "idle"]
    /\ UNCHANGED <<reg_lock, lk_lock, lk_stale>>
    /\ UNCHANGED <<regVars, cycVars, svcVars, parseVars, colVars, statVars>>

\* close_all without "with self._lock:": the body is entered at once
M35_LkCallCloseAll(t) ==
    /\ lk_pc[t] = "idle"
    /\ lk_pc' = [lk_pc EXCEPT ![t] = "ca_in"]
    /\ UNCHANGED <<reg_lock, lk_client, lk_lock, ep_owner, lk_target, lk_stale>>
    /\ UNCHANGED <<regVars, cycVars, svcVars, parseVars, colVars, statVars>>

\* a thread begins close_all: it requests self._lock
LkCallCloseAll(t) ==
    /\ lk_pc[t] = "idle"
    /\ lk_pc' = [lk_pc EXCEPT ![t] = "ca_wait"]
    /\ UNCHANGED <<reg_lock, lk_client, lk_lock, ep_owner, lk_target, lk_stale>>
    /\ UNCHANGED <<regVars, cycVars, svcVars, parseVars, colVars, statVars>>

\* the body of close_all, lines 184-195, and the end of its with block: both
\* maps are cleared
LkCloseAll(t) ==
    /\ lk_pc[t] = "ca_in"
    /\ lk_client' = "absent"
    /\ lk_lock' = None
    /\ Unregistered(t)
    /\ lk_pc' = [lk_pc EXCEPT ![t] = "idle"]
    /\ LkLeave(t)
    /\ UNCHANGED <<ep_owner, lk_target>>
    /\ UNCHANGED <<regVars, cycVars, svcVars, parseVars, colVars, statVars>>

\* __init__, lines 55-61
LockIdle ==
    /\ reg_lock = NoThread
    /\ lk_client = "absent"
    /\ lk_lock = None
    /\ ep_owner = [l \in LockIds |-> NoThread]
    /\ lk_pc = [t \in LkThreads |-> "idle"]
    /\ lk_target = [t \in LkThreads |-> None]
    /\ lk_stale = [t \in LkThreads |-> FALSE]

LockNext ==
    \/ \E t \in LkReaders : LkCallGetClient(t)
    \/ \E t \in LkThreads : LkEnter(t)
    \/ \E t \in LkReaders : LkGetClient(t)
    \/ \E t \in LkReaders : LkGetLock(t)
    \/ \E t \in LkReaders : LkAcquire(t)
    \/ \E t \in LkReaders : LkTxnEnd(t)
    \/ \E t \in LkClosers : LkCallCloseAll(t)
    \/ \E t \in LkClosers : LkCloseAll(t)

(***************************************************************************)
(* self.stats of the services: _collect_once on the background thread and  *)
(* on the caller's thread (collect_now), start, stop, reset_stats          *)
(***************************************************************************)
\* the background thread of the service that has been started (main.py starts
\* one service, the orchestrator), and the thread that calls start, stop,
\* reset_stats and collect_now
StatLoop == "loop"

StatCaller == "caller"

StatThreads == {StatLoop, StatCaller}

\* the stats dict of __init__ and of reset_stats
ZeroStats ==
    [total_collections |-> 0, successful_collections |-> 0,
     failed_collections |-> 0, last_error |-> FALSE]

\* the services whose stats reset_stats of service k replaces
ResetScope(k) == IF k = "orch" THEN Kinds ELSE {k}

\* the meter readings of one cycle: every meter answers
StatReadings == {[m \in SeqToSet(Meters) |-> v] : v \in {1}}

AllStored == [m \in SeqToSet(Meters) |-> "ok"]

\* PowerMeterService.get_latest_data
get_latest_data(data) == IF Truthy(data) THEN data ELSE NoDict

\* DataCollectionService.get_latest_power_meter_data
get_latest_power_meter_data == get_latest_data(latest_data)

\* thread t is between the load and the store of a +=
Loaded(t) == st_pc[t] \in {"total_loaded", "outcome_loaded"}

\* a _collect_once of service k is between its first and its last statement
InCycle(k) == \E t \in StatThreads : st_pc[t] # "idle" /\ st_kind[t] = k

StatFrame == UNCHANGED <<regVars, cycVars, svcVars, parseVars, colVars, lockVars>>

\* start(): nothing but the thread, the event and the flag
StStart(k) ==
    /\ st_pc[StatCaller] = "idle"
    /\ \A j \in Kinds : ~st_running[j]
    /\ st_running' = [st_running EXCEPT ![k] = TRUE]
    /\ UNCHANGED <<st_stats, latest_data, st_pc, st_kind, st_reg, st_stale,
                   st_field, st_raised, st_begun, st_overlap, st_midreset, st_nested>>
    /\ StatFrame

\* stop(): nothing but the event and the flag
StStop(k) ==
    /\ st_pc[StatCaller] = "idle"
    /\ st_running[k]
    /\ st_running' = [st_running EXCEPT ![k] = FALSE]
    /\ UNCHANGED <<st_stats, latest_data, st_pc, st_kind, st_reg, st_stale,
                   st_field, st_raised, st_begun, st_overlap, st_midreset, st_nested>>
    /\ StatFrame

\* reset_stats(): self.stats refers to a new dict; the orchestrator also
\* resets the two nested services
reset_stats(k) ==
    /\ st_pc[StatCaller] = "idle"
    /\ st_stats' = [j \in Kinds |-> IF j \in ResetScope(k) THEN ZeroStats
                                    ELSE st_stats[j]]
    /\ st_stale' = [t \in StatThreads |->
                       st_stale[t] \/ (Loaded(t) /\ st_kind[t] \in ResetScope(k))]
    /\ st_midreset' = [j \in Kinds |-> IF j \in ResetScope(k) THEN InCycle(j)
                                       ELSE st_midreset[j]]
    /\ st_begun' = [j \in Kinds |-> IF j \in ResetScope(k) /\ ~InCycle(j) THEN 0
                                    ELSE st_begun[j]]
    /\ st_overlap' = [j \in Kinds |-> IF j \in ResetScope(k) /\ ~InCycle(j) THEN FALSE
                                      ELSE st_overlap[j]]
    /\ UNCHANGED <<latest_data, st_running, st_pc, st_kind, st_reg,
                   st_field, st_raised, st_nested>>
    /\ StatFrame

\* self.stats['total_collections'] += 1, first half: the dict and the value
\* are loaded, by the loop of a started service or by collect_now
StBegin(t, k) ==
    /\ st_pc[t] = "idle"
    /\ t = StatLoop => st_running[k]
    /\ st_begun["box"] + st_begun["power"] + st_begun["orch"] < MaxStatCycles
    /\ st_begun' = [st_begun EXCEPT ![k] = @ + 1]
    /\ st_overlap' = [st_overlap EXCEPT ![k] = @ \/ InCycle(k)]
    /\ st_pc' = [st_pc EXCEPT ![t] = "total_loaded"]
    /\ st_kind' = [st_kind EXCEPT ![t] = k]
    /\ st_reg' = [st_reg EXCEPT ![t] = st_stats[k].total_collections]
    /\ st_field' = [st_field EXCEPT ![t] = "total_collections"]
    /\ st_nested' = (st_nested \/ k # "orch")
    /\ UNCHANGED <<st_stats, latest_data, st_running, st_stale, st_raised, st_midreset>>
    /\ StatFrame

\* the store of a += : into the dict that was loaded, which is self.stats
\* unless reset_stats has replaced it since
StoreInto(t) ==
    IF st_stale[t]
    THEN st_stats
    ELSE [st_stats EXCEPT ![st_kind[t]][st_field[t]] = st_reg[t] + 1]

\* self.stats['total_collections'] += 1, second half
StStoreTotal(t) ==
    /\ st_pc[t] = "total_loaded"
    /\ st_stats' = StoreInto(t)
    /\ st_pc' = [st_pc EXCEPT ![t] = "body"]
    /\ st_stale' = [st_stale EXCEPT ![t] = FALSE]
    /\ st_reg' = [st_reg EXCEPT ![t] = 0]
    /\ UNCHANGED <<latest_data, st_running, st_kind,
                   st_field, st_raised, st_begun, st_overlap, st_midreset, st_nested>>
    /\ StatFrame

\* the number compared with 0 after the collectors returned
StatSuccess(k, data, box_success) ==
    CASE k = "box"   -> box_success
      [] k = "power" -> CountNotNone(data.dict)
      [] k = "orch"  -> CountNotNone(data.dict) + box_success

\* an orchestrator that runs the cycles of the nested services
M37_LatestAfter(k, data) == IF k \in {"power", "orch"} THEN data ELSE latest_data

\* what the try block of the power service's _collect_once does to
\* _latest_data and what the orchestrator's does
LatestAfter(k, data) == IF k = "power" THEN data ELSE latest_data

\* the try block up to the first half of the += on successful_collections or
\* failed_collections; the except block up to the first half of its +=
StBody(t, readings, box_success, raises) ==
    /\ st_pc[t] = "body"
    /\ raises => st_kind[t] # "power"
    /\ LET k == st_kind[t]
           data == AsDict(power_collect_all(readings, AllStored))
           field == IF ~raises /\ StatSuccess(k, data, box_success) > 0
                    THEN "successful_collections" ELSE "failed_collections"
       IN  /\ latest_data' = IF raises THEN latest_data ELSE LatestAfter(k, data)
           /\ st_field' = [st_field EXCEPT ![t] = field]
           /\ st_reg' = [st_reg EXCEPT ![t] = st_stats[k][field]]
    /\ st_raised' = [st_raised EXCEPT ![t] = raises]
    /\ st_pc' = [st_pc EXCEPT ![t] = "outcome_loaded"]
    /\ UNCHANGED <<st_stats, st_running, st_kind, st_stale, st_begun, st_overlap,
                   st_midreset, st_nested>>
    /\ StatFrame

\* an except block that records the error without counting the cycle as
\* failed
M39_StStoreOutcome(t) ==
    /\ st_pc[t] = "outcome_loaded"
    /\ st_stats' = IF st_raised[t]
                   THEN [st_stats EXCEPT ![st_kind[t]].last_error = TRUE]
                   ELSE StoreInto(t)
    /\ st_pc' = [st_pc EXCEPT ![t] = "idle"]
    /\ st_kind' = [st_kind EXCEPT ![t] = "box"]
    /\ st_reg' = [st_reg EXCEPT ![t] = 0]
    /\ st_stale' = [st_stale EXCEPT ![t] = FALSE]
    /\ st_field' = [st_field EXCEPT ![t] = "total_collections"]
    /\ st_raised' = [st_raised EXCEPT ![t] = FALSE]
    /\ UNCHANGED <<latest_data, st_running, st_begun, st_overlap, st_midreset, st_nested>>
    /\ StatFrame

\* the second half of that +=, then self.stats['last_error'] = str(e) in the
\* except block, and _collect_once returns
StStoreOutcome(t) ==
    /\ st_pc[t] = "outcome_loaded"
    /\ st_stats' = IF st_raised[t]
                   THEN [StoreInto(t) EXCEPT ![st_kind[t]].last_error = TRUE]
                   ELSE StoreInto(t)
    /\ st_pc' = [st_pc EXCEPT ![t] = "idle"]
    /\ st_kind' = [st_kind EXCEPT ![t] = "box"]
    /\ st_reg' = [st_reg EXCEPT ![t] = 0]
    /\ st_stale' = [st_stale EXCEPT ![t] = FALSE]
    /\ st_field' = [st_field EXCEPT ![t] = "total_collections"]
    /\ st_raised' = [st_raised EXCEPT ![t] = FALSE]
    /\ UNCHANGED <<latest_data, st_running, st_begun, st_overlap, st_midreset, st_nested>>
    /\ StatFrame

StatIdle ==
    /\ st_stats = [k \in Kinds |-> ZeroStats]
    /\ latest_data = NoDict
    /\ st_running = [k \in Kinds |-> FALSE]
    /\ st_pc = [t \in StatThreads |-> "idle"]
    /\ st_kind = [t \in StatThreads |-> "box"]
    /\ st_reg = [t \in StatThreads |-> 0]
    /\ st_stale = [t \in StatThreads |-> FALSE]
    /\ st_field = [t \in StatThreads |-> "total_collections"]
    /\ st_raised = [t \in StatThreads |-> FALSE]
    /\ st_begun = [k \in Kinds |-> 0]
    /\ st_overlap = [k \in Kinds |-> FALSE]
    /\ st_midreset = [k \in Kinds |-> FALSE]
    /\ st_nested = FALSE

StatNext ==
    \/ \E k \in Kinds : StStart(k)
    \/ \E k \in Kinds : StStop(k)
    \/ \E k \in Kinds : reset_stats(k)
    \/ \E t \in StatThreads, k \in Kinds : StBegin(t, k)
    \/ \E t \in StatThreads : StStoreTotal(t)
    \/ \E t \in StatThreads, readings \in StatReadings, box_success \in 0..1,
          raises \in BOOLEAN : StBody(t, readings, box_success, raises)
    \/ \E t \in StatThreads : StStoreOutcome(t)

\* the default box_ips.json
DefaultConfig ==
    [heatpump |-> HeatpumpIds, groundpipe |-> GroundpipeIds,
     enabled |-> [d \in BoxDevices |-> TRUE]]

\* the collection cycle, one _collect_once at a time
Init ==
    /\ box_ips \in BoxConfigs
    /\ CycQuiet
    /\ RegInit
    /\ SvcInit
    /\ LockIdle
    /\ StatIdle
    /\ ColIdle
    /\ ParseIdle

Next ==
    \/ \E kind \in Kinds : CycStart(kind, NoDict)
    \/ \E arg \in ManualArgs : CycStart("box", arg)
    \/ \E cfg \in BoxConfigs : EditConfig(cfg)
    \/ \E cfg \in PowerConfigs : EditPowerConfig(cfg)
    \/ ReloadConfig
    \/ PowerCollectAll
    \/ HeatpumpCollect
    \/ HeatpumpResult
    \/ HeatpumpsDone
    \/ GroundpipeCollect
    \/ GroundpipeResult
    \/ GroundpipesDone
    \/ CycFinish
    \/ CollectAllRaises

Spec == Init /\ [][Next]_vars

\* the registry and the reader threads
RegSpecInit ==
    /\ RegInit
    /\ box_ips = DefaultConfig
    /\ CycQuiet
    /\ SvcInit
    /\ LockIdle
    /\ StatIdle
    /\ ColIdle
    /\ ParseIdle

RegSpec == RegSpecInit /\ [][RegNext]_vars

MgrSpec == RegSpecInit /\ [][MgrNext]_vars

\* the conversions applied to the registers of any response
ParseSpecInit ==
    /\ \/ p_regs \in RegisterLists /\ p_val = NoneRec
       \/ p_val \in EnergyValues /\ p_regs = Float32Encode(p_val)
    /\ ParseQuiet
    /\ RegInit
    /\ box_ips = DefaultConfig
    /\ CycQuiet
    /\ SvcInit
    /\ LockIdle
    /\ StatIdle
    /\ ColIdle

ParseSpec == ParseSpecInit /\ [][ParseNext]_vars

\* the threads of one service
SvcSpecInit ==
    /\ SvcInit
    /\ LockIdle
    /\ StatIdle
    /\ ColIdle
    /\ box_ips = DefaultConfig
    /\ CycQuiet
    /\ RegInit
    /\ ParseIdle

SvcSpec == SvcSpecInit /\ [][SvcNext]_vars

\* the threads that collect through the collectors of the services
ColSpecInit ==
    /\ ColIdle
    /\ box_ips = DefaultConfig
    /\ CycQuiet
    /\ RegInit
    /\ SvcInit
    /\ LockIdle
    /\ StatIdle
    /\ ParseIdle

ColSpec == ColSpecInit /\ [][ColNext]_vars

\* the locks of one manager under two readers and a closer
LockSpecInit ==
    /\ LockIdle
    /\ StatIdle
    /\ box_ips = DefaultConfig
    /\ CycQuiet
    /\ RegInit
    /\ SvcInit
    /\ ParseIdle
    /\ ColIdle

LockSpec == LockSpecInit /\ [][LockNext]_vars

\* transactions, connect attempts and the bodies of the with blocks end; a
\* thread that requests a lock which becomes free again and again gets it
LockFairness ==
    \A t \in LkThreads :
        /\ SF_vars(LkEnter(t))
        /\ SF_vars(LkAcquire(t))
        /\ WF_vars(LkGetClient(t))
        /\ WF_vars(LkGetLock(t))
        /\ WF_vars(LkTxnEnd(t))
        /\ WF_vars(LkCloseAll(t))

LockFairSpec == LockSpec /\ LockFairness

\* the stats of the services under the background loops and the caller
StatSpecInit ==
    /\ box_ips = DefaultConfig
    /\ CycQuiet
    /\ RegInit
    /\ SvcInit
    /\ ParseIdle
    /\ ColIdle
    /\ LockIdle
    /\ StatIdle

StatSpec == StatSpecInit /\ [][StatNext]_vars

\* the scheduler lets every thread that can take a step take it, and the
\* clock advances
SvcFairness ==
    /\ \A t \in Threads :
          /\ WF_vars(LoopCheck(t))
          /\ WF_vars(CycleBegin(t))
          /\ WF_vars(SubRead(t))
          /\ WF_vars(CycleEnd(t))
          /\ WF_vars(WaitReturns(t))
    /\ WF_vars(Tick)

SvcFairSpec == SvcSpec /\ SvcFairness

\* a register transaction of thread t is in flight
InFlight(t) == rpc[t] = "in_txn"

\* thread t holds a lock object it got from get_lock
HoldsEndpointLock(t) == rlock[t] # None /\ lockOwner[rlock[t]] = t

(***************************************************************************)
(* Claims about the registry and the readers (RegSpec)                     *)
(***************************************************************************)

\* C1: no two register-read transactions issued through the ModbusTcpManager
\* on one endpoint are ever in flight at the same time, whatever the
\* interleaving of reconnects and close_all.
C1_NoOverlappingTransactions ==
    \A t1, t2 \in BoxThreads : InFlight(t1) /\ InFlight(t2) => t1 = t2

\* C2: every read_holding_registers transaction of any reader (box
\* temperature and flow reads, PowerMeterReader.read_total_energy) is issued
\* while the calling thread holds the lock of the endpoint.
C2_TransactionHoldsLock ==
    \A t \in ReaderThreads : InFlight(t) => HoldsEndpointLock(t)

\* C2 holds of the box readers taken alone
C2_BoxTransactionHoldsLock ==
    \A t \in BoxThreads : InFlight(t) => HoldsEndpointLock(t)

(***************************************************************************)
(* Claims about the collection cycle (Spec)                                *)
(***************************************************************************)
\* the readings the power collector captured and stored in this cycle
CycleReadings == power_meter_data.dict.data

\* last is a heat-pump record the orchestrator cycle has just persisted
OrchPersistedHeatpump ==
    /\ ckind = "orch"
    /\ Phase = "heatpumps"
    /\ powerReturned
    /\ last.family = "heatpump"
    /\ last.insert = "ok"

\* C3: in an orchestrator cycle, a persisted heat-pump record whose device has
\* a power reading captured in that cycle carries that reading's energy.
C3_RecordCarriesCycleEnergy ==
    OrchPersistedHeatpump =>
        \A i \in 1..Len(CycleReadings) :
            CycleReadings[i].device_id = last.device_id
                => last.record.energy = CycleReadings[i].total_energy

\* C4: in an orchestrator cycle no box register transaction and no box
\* persistence call has begun unless the power collector's collect_all of
\* that cycle has returned.
C4_PowerBeforeBox ==
    (ckind = "orch" /\ cstep # 0 /\ boxBegun) => powerReturned

C4_Witness ==
    /\ ckind = "orch"
    /\ Phase = "groundpipes"
    /\ boxBegun
    /\ powerReturned
    /\ last.insert = "ok"

AllSubsFailed(l) == l.subs_ok = <<FALSE, FALSE, FALSE>>

\* C5: read_all_sensors returns None exactly when all three sub-reads failed;
\* otherwise each field of the reading is present exactly when its own
\* sub-read succeeded.
C5_ReadAllSensors ==
    last.read =>
        /\ last.sensor_data = NoneRec <=> AllSubsFailed(last)
        /\ last.sensor_data # NoneRec =>
             /\ last.sensor_data.input_temp # None <=> last.subs_ok[1]
             /\ last.sensor_data.output_temp # None <=> last.subs_ok[2]
             /\ last.sensor_data.flow # None <=> last.subs_ok[3]

C5_Witness ==
    /\ last.read
    /\ last.subs_ok = <<TRUE, FALSE, FALSE>>
    /\ last.sensor_data # NoneRec
    /\ last.sensor_data.input_temp = 0
    /\ last.sensor_data.output_temp = None

\* the number of sub-reads of the latest device read that succeeded
SubsOk(l) == Cardinality({i \in 1..3 : l.subs_ok[i]})

\* the fields of a persisted record that hold a value, in sub-read order
PresentFields(rec) ==
    <<rec.input_temp # None, rec.output_temp # None, rec.flow # None>>

\* the box collector's result map of the cycle, both families
BoxResults == hp_results @@ gp_results

\* C6: when the collector stores a device's result in the result map, a
\* device with one sub-read of three succeeding and a successful insert is
\* stored as True and its record holds exactly the one present field; a
\* device with all three sub-reads failing is stored as False and nothing was
\* persisted for it.
C6_PartialReadIsSuccess ==
    [][(last # NoLast /\ last' = NoLast /\ last.read) =>
          /\ (SubsOk(last) = 1 /\ last.insert = "ok") =>
                /\ BoxResults'[last.device_id] = TRUE
                /\ PresentFields(last.record) = last.subs_ok
          /\ SubsOk(last) = 1 => last.insert # "not_called"
          /\ SubsOk(last) = 0 =>
                /\ BoxResults'[last.device_id] = FALSE
                /\ last.insert = "not_called"
                /\ last.record = NoneRec]_vars

C6_Witness ==
    /\ Phase = "heatpumps"
    /\ last.read
    /\ SubsOk(last) = 1
    /\ last.insert = "ok"
    /\ last.success
    /\ PresentFields(last.record) = <<FALSE, FALSE, TRUE>>

\* the devices that succeeded in the cycle: devices of the box result map
\* that are True, meters whose reading was stored
DevicesSucceeded ==
    CASE ckind = "box"   -> CountTrue(hp_results) + CountTrue(gp_results)
      [] ckind = "power" -> power_meter_data.dict.success_count
      [] ckind = "orch"  -> power_meter_data.dict.success_count
                            + CountTrue(hp_results) + CountTrue(gp_results)

\* C10: a cycle that completes increments successful_collections when at
\* least one device succeeded and failed_collections otherwise.
C10_CycleCountedByDevices ==
    [][(Phase = "finish" /\ cstep' = 0) =>
          IF DevicesSucceeded > 0
          THEN /\ stats'[ckind].successful_collections
                    = stats[ckind].successful_collections + 1
               /\ stats'[ckind].failed_collections
                    = stats[ckind].failed_collections
          ELSE /\ stats'[ckind].failed_collections
                    = stats[ckind].failed_collections + 1
               /\ stats'[ckind].successful_collections
                    = stats[ckind].successful_collections]_vars

\* C10 for the box service alone
C10_BoxCycleCountedByDevices ==
    [][(Phase = "finish" /\ cstep' = 0 /\ ckind = "box") =>
          IF DevicesSucceeded > 0
          THEN stats'[ckind].successful_collections
                   = stats[ckind].successful_collections + 1
          ELSE stats'[ckind].failed_collections
                   = stats[ckind].failed_collections + 1]_vars

(***************************************************************************)
(* Claims about start, stop and the background loop (SvcSpec, SvcFairSpec) *)
(***************************************************************************)
\* a thread the service no longer refers to, left behind by a join that timed
\* out
Leaked(t) == t \in Alive /\ t # svc_thread

\* C7: after stop() and start(), also when the join of stop() timed out, at
\* most one background loop is alive and goes on running cycles: no thread
\* left behind by stop() passes the loop test again while the loop of the new
\* thread is alive.
C7_SingleLoopAfterRestart ==
    \A t \in Threads : (Leaked(t) /\ ThreadIsAlive) => tpc[t] # "begin"

\* the latest step was a call of start()
StartCalled ==
    /\ Len(calls') = Len(calls) + 1
    /\ calls'[Len(calls')] = "start"

\* C8: start() on a running service creates no thread and leaves the
\* interval, the stop event and the stats as they are; start() on a stopped
\* service creates exactly one thread.
C8_StartWhileRunningIsNoOp ==
    [][StartCalled =>
          IF svc_running
          THEN UNCHANGED <<svc_running, stop_event, svc_thread, interval, tpc,
                           remaining, svc_total>>
          ELSE /\ svc_running'
               /\ Cardinality(Created') = Cardinality(Created) + 1]_vars

C8_Witness ==
    /\ calls = <<"start", "start">>
    /\ svc_running
    /\ Cardinality(Created) = 1

\* C9, as stated: once the stop event is set and stays set, no thread begins
\* a collection cycle.
C9_NoCycleBeginsAfterSignal ==
    [][(stop_event /\ stop_event') =>
          \A t \in Threads : tpc'[t] = "cycle" => tpc[t] = "cycle"]_vars

\* all background loops have returned
AllExited == Alive = {}

\* C9, amended: while the stop event is set no thread passes the loop test, so
\* a thread begins at most the one cycle whose loop test came before the
\* signal; a wait in progress can return at once; and every loop has returned
\* eventually unless start() clears the event.
C9_StopEndsLoop ==
    /\ [][(stop_event /\ stop_event') =>
             \A t \in Threads : tpc'[t] = "begin" => tpc[t] = "begin"]_vars
    /\ [](\A t \in Threads :
             (stop_event /\ tpc[t] = "wait") => ENABLED WaitReturns(t))
    /\ [](stop_event => <>(AllExited \/ ~stop_event))

C9_Witness ==
    /\ stop_event
    /\ calls = <<"start", "stop">>
    /\ \E t \in Threads : tpc[t] = "wait" /\ remaining[t] > 0

(***************************************************************************)
(* Claims about the box collector's fan-out (Spec)                         *)
(***************************************************************************)
\* the device whose collect call has just returned is disabled
LastDisabled == last # NoLast /\ ~last.enabled

\* C11, first half: no register transaction is issued for a device with
\* enabled=false.
C11_DisabledDeviceNotRead == LastDisabled => ~last.read

\* C11: a device with enabled=false is skipped: no transaction is issued for
\* it, and it has no entry, neither True nor False, in the result map from
\* which the success and total counts are taken.
C11_DisabledDeviceSkipped ==
    /\ LastDisabled => ~last.read
    /\ \A d \in DOMAIN BoxResults : box_ips.enabled[d]

\* the device ids of the two lists of box_ips.json
ConfiguredIds == SeqToSet(box_ips.heatpump) \cup SeqToSet(box_ips.groundpipe)

\* a collect_heatpump or collect_groundpipe call returns in this step
CollectReturns == last = NoLast /\ last' # NoLast

\* C12: collect_all attempts every configured device exactly once per cycle
\* whatever happened to the other devices: a device that is attempted has no
\* entry in the result map yet, and when collect_all has returned the result
\* map has an entry for every configured device id and for no other.
C12_EveryDeviceAttemptedOnce ==
    /\ [][CollectReturns => last'.device_id \notin DOMAIN BoxResults]_vars
    /\ []((Phase = "finish" /\ ckind \in {"box", "orch"})
             => DOMAIN BoxResults = ConfiguredIds)

C12_Witness ==
    /\ Phase = "finish"
    /\ ckind = "box"
    /\ box_ips = DefaultConfig
    /\ BoxResults = [d \in BoxDevices |-> d # "HP_1"]

\* the insert of the latest device call returned False or raised
InsertFailed(l) == l.insert \in {"returns_false", "raises"}

\* the results dict the power collector returned in this cycle
PowerResults == power_meter_data.dict

\* C13: a device whose read succeeded and whose insert returned False or
\* raised is stored as False in the box result map, and the loop goes on to
\* the next device; a meter reading whose insert failed is listed in errors
\* and neither counted in success_count nor kept in data.
C13_InsertFailureIsCollectionFailure ==
    /\ [][(last # NoLast /\ last' = NoLast /\ InsertFailed(last)) =>
             /\ last.read /\ ~AllSubsFailed(last)
             /\ BoxResults'[last.device_id] = FALSE
             /\ cidx' = cidx + 1]_vars
    /\ []((powerReturned /\ ckind \in {"power", "orch"}) =>
             /\ PowerResults.success_count = Len(PowerResults.data)
             /\ PowerResults.success_count
                   = PowerResults.total_count - Len(PowerResults.errors)
             /\ \A i \in 1..Len(PowerResults.data) :
                   \A j \in 1..Len(PowerResults.errors) :
                       PowerResults.data[i].device_id # PowerResults.errors[j])

C13_Witness ==
    /\ ckind = "orch"
    /\ Phase = "groundpipes"
    /\ PowerResults.errors = <<"HP_2">>
    /\ PowerResults.success_count = 1
    /\ last.insert = "raises"
    /\ SubsOk(last) = 3
    /\ hp_results = [d \in SeqToSet(HeatpumpIds) |-> d = "HP_2"]

(***************************************************************************)
(* Claims about the energy of a heat-pump record (Spec)                    *)
(***************************************************************************)
\* the map handed to collect_heatpump holds device id d
MapHolds(d) == power_meter_data.given /\ d \in DOMAIN power_meter_data.dict

\* C14: a persisted heat-pump record carries power_meter_data[device_id] when
\* the supplied map holds that device id and carries no energy when the map
\* is missing, empty or lacks the id; a ground-pipe record has no energy
\* field.
C14_EnergyAttachedFromMap ==
    /\ (last.family = "heatpump" /\ last.insert = "ok") =>
          last.record.energy = IF MapHolds(last.device_id)
                               THEN power_meter_data.dict[last.device_id]
                               ELSE None
    /\ (last.family = "groundpipe" /\ last.insert = "ok") =>
          "energy" \notin DOMAIN last.record

C14_Witness ==
    /\ ckind = "box"
    /\ power_meter_data = AsDict("HP_1" :> 2)
    /\ last.device_id = "HP_1"
    /\ last.insert = "ok"
    /\ last.record.energy = 2

\* a heat-pump record persisted with a map that lacks its device id
C14_WitnessAbsent ==
    /\ ckind = "box"
    /\ power_meter_data = AsDict("HP_1" :> 2)
    /\ last.device_id = "HP_2"
    /\ last.insert = "ok"
    /\ last.record.energy = None

(***************************************************************************)
(* Claims about exceptions in the background loop (SvcSpec)                *)
(***************************************************************************)
\* C15: no exception of a completion callback, of an error callback or of the
\* cycle ends a background loop or reaches the caller of collect_now, and a
\* loop returns only when the stop event is set.
C15_ExceptionsNeverEscape ==
    /\ [](\A t \in Threads : tpc[t] # "crashed")
    /\ [](caller # "raised")
    /\ [][\A t \in Threads :
             (tpc[t] # "exited" /\ tpc'[t] = "exited") => stop_event]_vars

\* the cycle and its error callback raised in the loop, and the loop has
\* begun its next cycle
C15_Witness ==
    /\ svc_exc = [what |-> "cycle_and_on_error", by |-> "loop"]
    /\ calls = <<"start">>
    /\ svc_total = 2
    /\ \E t \in Threads : tpc[t] = "cycle"

\* collect_now has returned although the cycle and the error callback raised
C15_WitnessCollectNow ==
    /\ svc_exc = [what |-> "cycle_and_on_error", by |-> "collect_now"]
    /\ caller = "idle"


(***************************************************************************)
(* Claims about the methods of ModbusTcpManager (MgrSpec)                  *)
(***************************************************************************)
\* handle h is in the handle map of some manager
Registered(h) == \E m \in Managers, e \in Endpoints : clients[m][e] = h

\* the latest step was a get_client call
GotClient == rlast.op = "get_client"

\* the handle registered for the endpoint of the latest get_client call
NowRegistered == clients[rlast.m][rlast.e]

\* C16: a registered handle that get_client finds not connected is closed
\* and removed from the registry; what is registered for the endpoint
\* afterwards is a newly created handle whose connect() succeeded; a handle
\* enters a handle map only as such a new handle, and get_client returns
\* nothing but the handle registered for the endpoint, so that the removed
\* handle is never returned again.
C16_DisconnectedHandleDiscarded ==
    /\ [](GotClient /\ rlast.was = "disconnected" =>
            /\ hstate[rlast.found] = "closed"
            /\ ~Registered(rlast.found)
            /\ rlast.result # rlast.found
            /\ NowRegistered # None =>
                 /\ rlast.connect = "connected"
                 /\ NowRegistered = nextHandle
                 /\ NowRegistered > rlast.found
                 /\ Connected(NowRegistered))
    /\ [](GotClient /\ rlast.result # None => rlast.result = NowRegistered)
    /\ [][\A m \in Managers, e \in Endpoints :
            clients'[m][e] # None /\ clients'[m][e] # clients[m][e] =>
                /\ clients'[m][e] > nextHandle
                /\ hstate'[clients'[m][e]] = "connected"
                /\ rlast'.op = "get_client" /\ rlast'.connect = "connected"]_vars

\* get_client found a disconnected handle, discarded it and registered and
\* returned a new one
C16_Witness ==
    /\ GotClient /\ rlast.was = "disconnected" /\ rlast.connect = "connected"
    /\ rlast.result = nextHandle /\ rlast.result # rlast.found
    /\ hstate[rlast.found] = "closed"

\* a discarded handle that its holder has used again reports connected, and
\* get_client returns the registered handle, not that one
C16_WitnessLater ==
    /\ GotClient /\ rlast.was = "connected" /\ rlast.result # None
    /\ \E h \in Handles : /\ h < rlast.result /\ ~Registered(h)
                          /\ hstate[h] = "connected"


\* the connect() of the latest get_client call returned False or raised
ConnectFailed == GotClient /\ rlast.connect \in {"refused", "raises"}

\* C17: when connect() inside get_client returns False or raises, get_client
\* returns None and raises nothing, and afterwards no handle is registered
\* for the endpoint and is_connected is False, whether or not a handle was
\* registered before the call.
C17_ConnectFailureRegistersNothing ==
    ConnectFailed =>
        /\ rlast.result = None
        /\ ~rlast.raised
        /\ NowRegistered = None
        /\ ~is_connected(Registry, rlast.m, rlast.e)

\* connect() raised in a call that had found a (disconnected) handle registered
C17_Witness ==
    /\ ConnectFailed /\ rlast.connect = "raises" /\ rlast.was = "disconnected"
    /\ rlast.result = None

\* connect() returned False in a call that had found nothing registered
C17_WitnessAbsent ==
    /\ ConnectFailed /\ rlast.connect = "refused" /\ rlast.was = "absent"
    /\ rlast.result = None /\ nextHandle > 0


\* the latest get_client call found a registered handle reporting connected
Reused == GotClient /\ rlast.was = "connected"

\* C18: get_client on an endpoint whose registered handle reports connected
\* returns that handle, attempts no connect and creates no client or lock
\* object, and leaves the handle map and the lock map as they were.
C18_ConnectedHandleReused ==
    /\ [](Reused => /\ rlast.result = rlast.found
                    /\ rlast.result = NowRegistered
                    /\ rlast.connect = "none"
                    /\ Connected(rlast.result))
    /\ [][rlast'.op = "get_client" /\ rlast'.was = "connected" =>
            /\ clients' = clients
            /\ locks' = locks
            /\ hstate' = hstate
            /\ nextHandle' = nextHandle
            /\ nextLock' = nextLock]_vars

\* a second call on the endpoint returned the handle the first one
\* registered, with the endpoint's lock in place
C18_Witness ==
    /\ Reused /\ rlast.result = nextHandle
    /\ locks[rlast.m][rlast.e] # None
    /\ \E h \in Handles : h < rlast.result /\ hstate[h] = "closed"


\* the latest step was a close_all call
ClosedAll == rlast.op = "close_all"

\* manager m has no handle and no lock registered
Empty(m) == \A e \in Endpoints : clients[m][e] = None /\ locks[m][e] = None

\* C19: after close_all the handle map and the lock map of the manager are
\* empty, every handle that was registered is closed and nothing was raised;
\* close_all on a manager whose maps are empty (a second close_all, or one on
\* a manager never used) changes nothing; applying close_all twice gives
\* the registry that applying it once gives.
C19_CloseAllIdempotent ==
    /\ [](ClosedAll => /\ Empty(rlast.m)
                       /\ \A h \in rlast.closed : hstate[h] = "closed"
                       /\ ~rlast.raised)
    /\ [](\A m \in Managers :
            close_all(close_all(Registry, m), m) = close_all(Registry, m))
    /\ [][rlast'.op = "close_all" /\ Empty(rlast'.m) =>
            /\ clients' = clients
            /\ locks' = locks
            /\ hstate' = hstate
            /\ nextHandle' = nextHandle
            /\ nextLock' = nextLock
            /\ ~rlast'.raised]_vars

\* close_all right after a close_all that closed a handle
C19_Witness ==
    /\ ClosedAll /\ rlast.closed = {} /\ Empty(rlast.m)
    /\ nextHandle > 0 /\ nextLock > 0
    /\ \A h \in Handles : h <= nextHandle => hstate[h] = "closed" /\ ~Registered(h)

\* close_all that found a handle and a lock registered
C19_WitnessFirst ==
    ClosedAll /\ rlast.closed # {} /\ Empty(rlast.m)

\* close_all on a manager on which get_client was never called
C19_WitnessUnused ==
    ClosedAll /\ rlast.closed = {} /\ nextHandle = 0 /\ nextLock = 0


(***************************************************************************)
(* Claims about the construction of managers and readers (RegSpec)         *)
(***************************************************************************)
\* the manager objects constructed so far
MadeManagers == {m \in Managers : Made(m)}

\* the readers in rs hold one and the same manager object
ShareManager(rs) ==
    \A t1, t2 \in rs : Built(t1) /\ Built(t2) => ManagerOf(t1) = ManagerOf(t2)

\* C20: at most one ModbusTcpManager object exists; every reader, of the box
\* family and of the power family, is constructed with that object whatever
\* the order of construction; so one endpoint has one handle and one lock
\* for all of them.
C20_OneManagerForAllReaders ==
    /\ Cardinality(MadeManagers) <= 1
    /\ \A t \in ReaderThreads : reader_mgr[t] # "raised"
    /\ ShareManager(ReaderThreads)
    /\ \A m1, m2 \in Managers, e \in Endpoints :
          clients[m1][e] # None /\ clients[m2][e] # None =>
              clients[m1][e] = clients[m2][e] /\ locks[m1][e] = locks[m2][e]

\* C20 holds of the box readers taken alone: they all hold the object
\* get_instance() returns
C20_BoxReadersShareManager ==
    /\ ShareManager(BoxThreads)
    /\ \A t \in BoxThreads : Built(t) => ManagerOf(t) = "singleton" /\ the_instance


(***************************************************************************)
(* Claims about configuration changes between cycles (Spec)                *)
(***************************************************************************)
\* the box device collected by the latest step was handled with the enabled
\* flag box_ips.json holds now
BoxUsesCurrentConfig ==
    last.family # "" => last.enabled = box_ips.enabled[last.device_id]

\* the power collector is about to read, or has read in this cycle, exactly
\* the meters power_meter_config.json enables now
PowerUsesCurrentConfig ==
    ckind \in {"power", "orch"} /\ cstep > 0 =>
        meter_configs = get_enabled_meters(power_file)

\* C21: a change of a device's configuration made between two cycles is
\* used by the next cycle, for the box family and for the power-meter
\* family, without a restart of the process.
C21_ConfigChangeUsedByNextCycle ==
    BoxUsesCurrentConfig /\ PowerUsesCurrentConfig

\* C21 holds of the box family taken alone: box_ips.json is read again by
\* every collect_heatpump and collect_groundpipe
C21_BoxConfigChangeUsed == BoxUsesCurrentConfig


(***************************************************************************)
(* Claims about the register conversions (ParseSpec)                       *)
(***************************************************************************)
\* the number of hundredths in a decimal d equals hi * 2^16 + lo; the two
\* halves of the 32-bit range are compared apart (2^31 = 21474836 * 100 + 48)
IsWords(d, hi, lo) ==
    /\ d # NoneRec
    /\ d.kind = "num" /\ ~d.neg /\ d.cents \in 0..99
    /\ IF hi < 32768
       THEN d.whole * 100 + d.cents = hi * 65536 + lo
       ELSE (d.whole - 21474836) * 100 + d.cents - 48 = (hi - 32768) * 65536 + lo

\* C22: for all registers r0, r1, parse_flow([r0, r1]) is ((r1 << 16) | r0)
\* hundredths of a L/min, the second register being the high word;
\* [0x0000, 0x0000] gives 0.0 and [0xFEC6, 0x0007] gives 5239.74.
C22_FlowSecondRegisterIsHighWord ==
    p_fn = "parse_flow" /\ Len(p_regs) >= 2 =>
        /\ IsWords(p_out, p_regs[2], p_regs[1])
        /\ p_regs = <<0, 0>> => p_out = Hundredths(0)
        /\ p_regs = <<65222, 7>> => p_out = Hundredths(523974)

\* parse_flow([0xFEC6, 0x0007]) returned 5239.74
C22_Witness ==
    /\ p_fn = "parse_flow" /\ p_regs = <<65222, 7>>
    /\ p_out # NoneRec /\ p_out.whole = 5239 /\ p_out.cents = 74

\* parse_flow on a value of more than 31 bits: [0xFFFF, 0xFFFF] gives
\* 42949672.95
C22_WitnessTop ==
    /\ p_fn = "parse_flow" /\ p_regs = <<65535, 65535>>
    /\ p_out # NoneRec /\ p_out.whole = 42949672 /\ p_out.cents = 95


\* the values of a signed 16-bit temperature, in tenths of a degree
Int16 == -32768..32767

\* the documented encode: t as a 16-bit two's-complement register
Int16Encode(t) == IF t < 0 THEN t + 65536 ELSE t

\* the tenths of a degree in a decimal d
TenthsOf(d) == (IF d.neg THEN -1 ELSE 1) * (d.whole * 10 + d.cents \div 10)

\* C23: parse_temperature is the inverse of the two's-complement encode on
\* the whole int16 range: the register selected by index decodes to the
\* tenths t whose encoding it is, registers from 0x8000 up to r - 0x10000
\* tenths and registers below 0x8000 to r tenths.
C23_TemperatureInvertsEncode ==
    p_fn = "parse_temperature" /\ Len(p_regs) > p_arg =>
        LET r == p_regs[p_arg + 1]
        IN  /\ p_out # NoneRec
            /\ p_out.cents % 10 = 0
            /\ TenthsOf(p_out) \in Int16
            /\ Int16Encode(TenthsOf(p_out)) = r
            /\ TenthsOf(p_out) = IF r >= 32768 THEN r - 65536 ELSE r

\* the lowest temperature: register 0x8000 decoded to -3276.8
C23_Witness ==
    /\ p_fn = "parse_temperature" /\ p_regs = <<Int16Encode(-32768)>>
    /\ p_out # NoneRec /\ p_out.neg /\ p_out.whole = 3276 /\ p_out.cents = 80

\* the second register of a response of three selected by index 1:
\* 0xF831 decoded to -199.9
C23_WitnessIndex ==
    /\ p_fn = "parse_temperature" /\ p_regs = <<197, 63537, 0>> /\ p_arg = 1
    /\ p_out = Hundredths(-19990)


\* the latest step was a read_total_energy on a response of two registers
EnergyRead == p_fn = "read_total_energy" /\ Len(p_regs) >= 2

\* C24: the power reader decodes the two energy registers with the encoding
\* of the meter's configured variant, IEEE-754 float32 (high word first) for
\* variant (a) and ((high << 16) | low) * 0.01 for variant (b), and a
\* collection cycle reaches both.
C24_EnergyDecodedByVariant ==
    EnergyRead =>
        /\ p_model = "float32" => p_out = parse_power_meter(p_regs)
        /\ p_model = "uint32" => IsWords(p_out, p_regs[1], p_regs[2])

\* C24 holds of variant (b) taken alone
C24_IntegerVariantDecoded ==
    EnergyRead /\ p_model = "uint32" => IsWords(p_out, p_regs[1], p_regs[2])


\* the registers the latest conversion needs
Needed ==
    CASE p_fn = "parse_temperature" -> p_arg + 1
      [] p_fn \in {"parse_flow", "parse_power_meter", "read_total_energy"} -> 2
      [] OTHER -> 0

\* a conversion was applied to a response with fewer registers than it needs
TooFew == p_fn # "none" /\ Len(p_regs) < Needed

\* C25: every conversion given fewer registers than it needs returns None
\* and never a value: parse_temperature on an empty list or one no longer
\* than index, parse_flow and parse_power_meter on fewer than two registers,
\* read_total_energy on a response of fewer than two registers. (A
\* conversion given enough registers returns a value.)
C25_TooFewRegistersIsFailure ==
    /\ TooFew => p_out = NoneRec
    /\ p_fn # "none" /\ ~TooFew => p_out # NoneRec

\* parse_temperature was asked for index 2 of a response of one register
C25_Witness ==
    /\ TooFew /\ p_fn = "parse_temperature" /\ p_arg = 2 /\ Len(p_regs) = 1
    /\ p_out = NoneRec

\* parse_flow got one register
C25_WitnessFlow ==
    TooFew /\ p_fn = "parse_flow" /\ Len(p_regs) = 1 /\ p_out = NoneRec

\* parse_power_meter got no register
C25_WitnessPower ==
    TooFew /\ p_fn = "parse_power_meter" /\ p_regs = <<>> /\ p_out = NoneRec

\* read_total_energy got a response of one register
C25_WitnessEnergy ==
    TooFew /\ p_fn = "read_total_energy" /\ Len(p_regs) = 1 /\ p_out = NoneRec


\* the difference, in ten-thousandths of a kWh, between a decimal d of two
\* places and the energy v
ErrorOf(d, v) == (d.whole - v.int) * 10000 + d.cents * 100 - v.frac

\* d is a number within 0.01 of the energy v
Within001(d, v) ==
    /\ d # NoneRec /\ d.kind = "num" /\ ~d.neg
    /\ ErrorOf(d, v) <= 100 /\ ErrorOf(d, v) >= -100

\* parse_power_meter was applied to the float32 encoding of an energy
Decoded == p_fn = "parse_power_meter" /\ p_val # NoneRec

\* C26 as stated: the float32 encoding of any non-negative energy V decodes
\* to within 0.01 of V, and the encoding of any negative energy to 0.0.
C26_Float32RoundTrip ==
    Decoded => IF p_val.neg THEN p_out = Hundredths(0)
               ELSE Within001(p_out, p_val)

\* C26 for the range in which it holds: the float32 encoding of a
\* non-negative energy V below 2^17 = 131072 kWh decodes to within 0.01 of
\* V, and the encoding of any negative energy to 0.0.
C26_Float32RoundTripBelow2p17 ==
    Decoded => IF p_val.neg THEN p_out = Hundredths(0)
               ELSE p_val.int < 131072 => Within001(p_out, p_val)

\* 131071.9961 kWh, the largest step below 2^17, decoded to 131072.0
C26_Witness ==
    /\ Decoded /\ p_val = Energy(FALSE, 131071, 9961)
    /\ p_out = Hundredths(13107200)

\* -123.45 kWh decoded to 0.0
C26_WitnessNegative ==
    Decoded /\ p_val = Energy(TRUE, 123, 4500) /\ p_out = Hundredths(0)

(***************************************************************************)
(* Claims about cancellation inside a cycle (SvcSpec)                      *)
(***************************************************************************)
\* thread t begins a sub-read in this step
BeginsSubRead(t) == sub_reads'[t] = sub_reads[t] + 1

\* C27: after a stop request no new sub-read is started: a cycle in progress
\* when the stop event is set does not begin its remaining sub-reads.
C27_NoSubReadAfterStop ==
    [][stop_event => \A t \in Threads : ~BeginsSubRead(t)]_vars

\* a cycle begun before stop() goes on to its last sub-read with the stop
\* event set
C27_CycleCompletesAfterStop ==
    /\ stop_event
    /\ calls = <<"start", "stop">>
    /\ \E t \in Threads : tpc[t] = "cycle" /\ sub_reads[t] = SubReadsPerCycle

(***************************************************************************)
(* Claims about the sub-reads of one read_all_sensors (RegSpec)            *)
(***************************************************************************)
\* the locks thread t holds
HeldBy(t) == {l \in LockIds : lockOwner[l] = t}

\* the sub-read of thread t that is next changes in this step
SubReadEnds(t) == rsub'[t] # rsub[t]

\* temperature-1 is followed by temperature-2, temperature-2 by flow, and
\* flow by the temperature-1 of the next read_all_sensors
InOrder(t) ==
    \/ rsub[t] = 1 /\ rsub'[t] = 2
    \/ rsub[t] = 2 /\ rsub'[t] = 3
    \/ rsub[t] = 3 /\ rsub'[t] = 1

\* C28: the sub-reads of a box reader follow each other in the order
\* temperature-1, temperature-2, flow; a box reader holds a lock only while
\* its transaction is in flight and the lock is the one it took for this
\* sub-read, so between two sub-reads it holds none and the sub-read that
\* ends leaves it without a lock.
C28_SubReadsInOrderEachUnderOwnLock ==
    /\ [][\A t \in BoxThreads : SubReadEnds(t) => InOrder(t)]_vars
    /\ [](\A t \in BoxThreads :
             /\ HeldBy(t) # {} => InFlight(t) /\ HeldBy(t) = {rlock[t]}
             /\ rpc[t] \in {"idle", "got_client"} => rlock[t] = None)

\* b1 is between its temperature-1 and its temperature-2 sub-read and holds
\* nothing; b2 has its transaction in flight on the same endpoint of the same
\* manager under the endpoint's lock
C28_Witness ==
    /\ rsub["b1"] = 2
    /\ rpc["b1"] = "idle"
    /\ InFlight("b2")
    /\ ManagerOf("b1") = ManagerOf("b2")
    /\ nextLock = 1
    /\ lockOwner[1] = "b2"

\* between the temperature-2 and the flow transaction of b1
C28_WitnessBeforeFlow ==
    /\ rsub["b1"] = 3
    /\ rpc["b1"] \in {"idle", "got_client", "got_lock"}
    /\ InFlight("b2")
    /\ HoldsEndpointLock("b2")
    /\ HeldBy("b1") = {}

(***************************************************************************)
(* Claims about the lock an endpoint keeps (MgrSpec)                       *)
(***************************************************************************)
\* this step is a get_client(e) on manager m that returns a client
GetClientSucceeds(m, e) ==
    /\ rlast'.op = "get_client"
    /\ rlast'.m = m
    /\ rlast'.e = e
    /\ rlast'.result # None

\* C29: a successful get_client for an endpoint that has a lock registered
\* keeps that lock object, so get_lock returns the same lock before and
\* after the call.
C29_GetClientKeepsLock ==
    [][\A m \in Managers, e \in Endpoints :
          GetClientSucceeds(m, e) /\ locks[m][e] # None
             => locks'[m][e] = locks[m][e]]_vars

\* what holds of get_client and the lock: the call that reuses a connected
\* client leaves the endpoint's lock as it found it
C29_ReuseKeepsLock ==
    [][\A m \in Managers, e \in Endpoints :
          GetClientSucceeds(m, e) /\ rlast'.was = "connected"
             => locks'[m][e] = locks[m][e]]_vars

\* get_lock made lock 1 for an endpoint without a client; the get_client
\* that connected registered lock 2 in its place
C29_LockReplacedOnConnect ==
    /\ GotClient
    /\ rlast.was = "absent"
    /\ rlast.result = 1
    /\ nextLock = 2
    /\ locks[rlast.m][rlast.e] = 2

(***************************************************************************)
(* Claims about the handle a transaction is issued on (RegSpec)            *)
(***************************************************************************)
\* thread t issues its register transaction in this step
Issues(t) == ~InFlight(t) /\ rpc'[t] = "in_txn"

\* the handle thread t holds is the one its manager has registered for an
\* endpoint
HoldsRegistered(t) == \E e \in Endpoints : clients[ManagerOf(t)][e] = rclient[t]

\* C30: every register transaction is issued on the handle that is
\* registered for its endpoint at that moment.
C30_IssuedOnRegisteredHandle ==
    [][\A t \in ReaderThreads : Issues(t) => HoldsRegistered(t)]_vars

\* the same for the box readers, which take the endpoint lock between
\* get_client and the transaction
C30_BoxIssuedOnRegisteredHandle ==
    [][\A t \in BoxThreads : Issues(t) => HoldsRegistered(t)]_vars

\* b1 has its transaction in flight on a handle that was closed and evicted
\* after b1 fetched it, while another handle is registered for the endpoint
C30_IssuedOnEvictedHandle ==
    /\ InFlight("b1")
    /\ ~HoldsRegistered("b1")
    /\ rclient["b1"] = 1
    /\ clients[ManagerOf("b1")]["ep1"] = 2

(***************************************************************************)
(* Claims about the reader cache of the box collector (ColSpec)            *)
(***************************************************************************)
\* the latest transaction of thread t went to the slave id that the
\* configuration gives the device t was collecting
OwnSlaveId(t) ==
    col_sent[t].issued =>
        col_sent[t].slave = SlaveIds[col_sent[t].device][col_sent[t].sub]

\* C31: every sub-read of a device goes to that device's own configured
\* slave id, also when collect_now runs next to a scheduled cycle on the same
\* collector.
C31_SubReadUsesOwnSlaveIds == \A t \in Collectors : OwnSlaveId(t)

\* what holds of the cache: a thread that collects alone sends every sub-read
\* to the device's own slave id
C31_AloneUsesOwnSlaveIds ==
    \A t \in Collectors :
        (\A u \in Collectors \ {t} : col_pc[u] = "idle" /\ col_sent[u] = NoSent)
            => OwnSlaveId(t)

\* the loop thread collects alone and reads the flow of the second device
\* of the endpoint with that device's slave id
C31_WitnessAlone ==
    /\ col_sent["loop"].device = "HP_2"
    /\ col_sent["loop"].sub = 3
    /\ col_sent["loop"].slave = 6
    /\ col_sent["loop"].issued
    /\ col_sent["manual"] = NoSent
    /\ col_pc["manual"] = "idle"

\* the loop thread has sent the temperature-2 transaction of HP_1 to the
\* slave id of HP_2, which collect_now has put into the shared reader
C31_SentToOtherDevice ==
    /\ col_sent["loop"].device = "HP_1"
    /\ col_sent["loop"].sub = 2
    /\ col_sent["loop"].slave = 5
    /\ col_sent["loop"].issued

(***************************************************************************)
(* Claims about last_error (Spec)                                          *)
(***************************************************************************)
\* last_error of service k is written in this step
LastErrorWritten(k) == stats'[k].last_error # stats[k].last_error

\* the cycle ends in this step in the except block of _collect_once
CycleRaises == Phase \notin {"idle", "finish"} /\ cstep' = 0

\* C32: last_error is written only when the cycle raises outside the
\* per-device handling, and then for the service whose cycle it is; a cycle
\* that reaches the end of its try block leaves last_error of every service
\* as it was, also when no device of the cycle succeeded.
C32_LastErrorOnlyFromCycleException ==
    /\ [][\A k \in Kinds : LastErrorWritten(k) => CycleRaises /\ k = ckind]_vars
    /\ [][Phase = "finish" => \A k \in Kinds : ~LastErrorWritten(k)]_vars

\* a box cycle in which no device succeeded has ended: it is counted as
\* failed and last_error is not set
C32_Witness ==
    /\ cstep = 0
    /\ cycles = 1
    /\ stats["box"].failed_collections = 1
    /\ ~stats["box"].last_error

\* a box cycle has ended in the except block: last_error is set
C32_WitnessRaised ==
    /\ cstep = 0
    /\ cycles = 1
    /\ stats["box"].failed_collections = 1
    /\ stats["box"].last_error

(***************************************************************************)
(* Claims about failures inside a Device Reader (ColSpec)                  *)
(***************************************************************************)
\* thread t has made a sub-read
HasRead(t) == col_sent[t] # NoSent

\* C33: no sub-read of a box reader or of the power reader raises, whatever
\* the transaction and the conversion do; a sub-read that returns a value has
\* issued its transaction; and a sub-read for which get_client returned no
\* client issues no transaction and returns the failure value.
C33_ReaderNeverRaises ==
    \A t \in ColThreads :
        HasRead(t) =>
            /\ ~col_sent[t].raised
            /\ col_sent[t].result = "value" => col_sent[t].issued
            /\ col_sent[t].handle = "none" =>
                   ~col_sent[t].issued /\ col_sent[t].result = "none"

\* a box sub-read without a client: nothing was issued, None was returned
C33_Witness ==
    /\ col_sent["loop"].handle = "none"
    /\ col_sent["loop"].sub = 2
    /\ ~col_sent["loop"].issued
    /\ col_sent["loop"].result = "none"

\* a power read without a client
C33_WitnessPower ==
    /\ col_sent["meter"].handle = "none"
    /\ col_sent["meter"].device = "HP_2"
    /\ ~col_sent["meter"].issued
    /\ col_sent["meter"].result = "none"

\* a flow sub-read whose transaction went out and was a failed read
C33_WitnessFailedTransaction ==
    /\ col_sent["manual"].handle = "client"
    /\ col_sent["manual"].sub = 3
    /\ col_sent["manual"].issued
    /\ col_sent["manual"].result = "none"

(***************************************************************************)
(* Claims about reconnection between sub-reads (RegSpec)                   *)
(***************************************************************************)
\* the get_client call of a sub-read of thread t returns a client in this step
GetsClient(t) == rpc[t] = "idle" /\ rpc'[t] = "got_client"

\* the get_client call of a sub-read of box thread t returns None in this
\* step: the sub-read is over at once
GetsNoClient(t) == rpc[t] = "idle" /\ rpc'[t] = "idle" /\ rsub'[t] # rsub[t]

\* the connection of the handle registered for e on the manager of t is lost
LostFor(t, e) ==
    /\ Built(t)
    /\ clients[ManagerOf(t)][e] # None
    /\ ~Connected(clients[ManagerOf(t)][e])

\* C34: a sub-read issues its transaction only on a handle that get_client
\* gave it in this sub-read; the handle get_client gives is the one registered
\* for the endpoint at that moment and it is connected; when the registered
\* handle had lost its connection, the get_client of the next sub-read of any
\* reader of that manager closes it and makes a connect attempt: on success
\* the sub-read runs on a newly created handle, which is the registered one,
\* and on failure nothing is registered and the sub-read issues nothing.
C34_NextSubReadReconnects ==
    /\ [][\A t \in ReaderThreads :
            Issues(t) => rpc[t] \in {"got_client", "got_lock"}
                         /\ rclient[t] # None /\ rclient'[t] = rclient[t]]_vars
    /\ [][\A t \in ReaderThreads, e \in Endpoints :
            GetsClient(t) =>
               /\ rclient'[t] = clients'[ManagerOf(t)][e]
               /\ hstate'[rclient'[t]] = "connected"
               /\ LostFor(t, e) =>
                    /\ rclient'[t] = nextHandle + 1
                    /\ hstate[rclient'[t]] = "unused"
                    /\ hstate'[clients[ManagerOf(t)][e]] = "closed"]_vars
    /\ [][\A t \in BoxThreads, e \in Endpoints :
            GetsNoClient(t) =>
               /\ clients'[ManagerOf(t)][e] = None
               /\ LostFor(t, e) => hstate'[clients[ManagerOf(t)][e]] = "closed"]_vars

\* the connection of handle 1 was lost; the temperature-2 sub-read of b1 got
\* the new handle 2 from get_client and has its transaction in flight on it
C34_Witness ==
    /\ InFlight("b1")
    /\ rsub["b1"] = 2
    /\ rclient["b1"] = 2
    /\ clients[ManagerOf("b1")]["ep1"] = 2
    /\ hstate[1] = "closed"
    /\ nextHandle = 2

\* after the reconnect a sub-read of the other box reader runs on the new
\* handle as well
C34_WitnessOtherReader ==
    /\ InFlight("b2")
    /\ rclient["b2"] = 2
    /\ rpc["b1"] = "idle"
    /\ ManagerOf("b1") = ManagerOf("b2")
    /\ clients[ManagerOf("b2")]["ep1"] = 2
    /\ hstate[1] = "closed"

(***************************************************************************)
(* Claims about the registry-wide lock and the endpoint locks (LockSpec)   *)
(***************************************************************************)
\* an entry of self.clients or self.locks is inserted or deleted in this step
\* (a transaction that ends with a transport error changes the state of the
\* registered client object, not the maps)
EntryMutated ==
    \/ lk_lock' # lk_lock
    \/ (lk_client = "absent") # (lk_client' = "absent")
    \/ lk_client = "lost" /\ lk_client' = "connected"

\* the step is taken by the thread that holds self._lock, inside a with block
ByRegistryHolder ==
    /\ reg_lock # NoThread
    /\ lk_pc[reg_lock] \in InRegistry
    /\ lk_pc'[reg_lock] # lk_pc[reg_lock]
    /\ \A u \in LkThreads \ {reg_lock} : lk_pc'[u] = lk_pc[u]

\* C35: every insert into and delete from the handle map and the lock map is
\* made by the thread that holds the registry-wide lock at that moment; a
\* thread is inside get_client, get_lock or close_all only while it holds that
\* lock, so at most one is; and the registry-wide lock is no endpoint lock:
\* its holder owns no endpoint lock, and every endpoint lock stays free to be
\* taken or held by another thread.
C35_MapMutationUnderRegistryLock ==
    /\ [][EntryMutated => ByRegistryHolder]_vars
    /\ [](\A t \in LkThreads : lk_pc[t] \in InRegistry <=> reg_lock = t)
    /\ [](\A l \in LockIds : ep_owner[l] # NoThread => ep_owner[l] # reg_lock)

\* b1 is inside get_client holding the registry-wide lock while b2 holds the
\* endpoint lock for its transaction
C35_Witness ==
    /\ reg_lock = "b1"
    /\ lk_pc["b1"] = "gc_in"
    /\ lk_pc["b2"] = "txn"
    /\ ep_owner[lk_target["b2"]] = "b2"

\* close_all has the registry-wide lock while a reader waits for it
C35_WitnessCloseAll ==
    /\ reg_lock = "closer"
    /\ lk_pc["closer"] = "ca_in"
    /\ lk_pc["b1"] = "gl_wait"
    /\ lk_client = "connected"

\* the thread that holds the lock t is blocked on, or NoThread
HolderFor(t) ==
    IF lk_pc[t] = "ep_wait" THEN ep_owner[lk_target[t]] ELSE reg_lock

\* thread t holds an endpoint lock
HoldsEndpoint(t) == \E l \in LockIds : ep_owner[l] = t

C40_WitnessReplacedLock ==
    /\ lk_pc["b1"] = "ep_wait"
    /\ lk_target["b1"] # lk_lock
    /\ HolderFor("b1") = "b2"


(***************************************************************************)
(* C36: the counters never decrease except by reset_stats, and start and   *)
(* stop leave the stats alone                                              *)
(***************************************************************************)
Counters == {"total_collections", "successful_collections", "failed_collections"}

\* a counter of service k is smaller after the step than before it
Decreases(k) == \E c \in Counters : st_stats'[k][c] < st_stats[k][c]

\* the step is a reset_stats call that reaches service k
ResetsStats(k) == \E j \in Kinds : reset_stats(j) /\ k \in ResetScope(j)

\* the step is a start() or a stop() call
StartsOrStops == \E k \in Kinds : StStart(k) \/ StStop(k)

\* C36: between two calls of reset_stats no counter of a service decreases,
\* only reset_stats resets them, and start(), stop() and a restart leave
\* every stats field unchanged.
C36_CountersOnlyResetByResetStats ==
    [][/\ \A k \in Kinds : Decreases(k) => ResetsStats(k)
       /\ StartsOrStops => st_stats' = st_stats]_vars

\* C36, the part that holds: start() and stop() leave the stats unchanged, and
\* the counters of a service whose cycles have not overlapped decrease only
\* in a reset_stats call.
C36_NoDecreaseWithoutOverlap ==
    [][/\ \A k \in Kinds : Decreases(k) /\ ~st_overlap[k] => ResetsStats(k)
       /\ StartsOrStops => st_stats' = st_stats]_vars

\* C36 witness: a service was stopped after one of its cycles was counted,
\* and the count is still there.
C36_WitnessStopped ==
    /\ ~st_running["orch"]
    /\ st_pc[StatLoop] = "idle"
    /\ st_begun = [k \in Kinds |-> IF k = "orch" THEN 1 ELSE 0]
    /\ st_stats["orch"].total_collections = 1
    /\ st_stats["orch"].successful_collections = 1

\* C36 counterexample state: three cycles of one service have finished and
\* its stats were never reset, yet total_collections is 1.
C36_CounterFellBack ==
    /\ \A t \in StatThreads : st_pc[t] = "idle"
    /\ st_begun["box"] = 3
    /\ ~st_midreset["box"]
    /\ st_stats["box"] = [total_collections |-> 1, successful_collections |-> 2,
                          failed_collections |-> 0, last_error |-> FALSE]


(***************************************************************************)
(* C37: orchestrator cycles and the state of the nested services           *)
(***************************************************************************)
\* no _collect_once of the nested PowerMeterService or BoxSensorService has
\* been called: every cycle so far was the orchestrator's
OnlyOrchestratorCycles == ~st_nested

\* C37: however many orchestrator cycles run, the stats of the nested
\* PowerMeterService and BoxSensorService keep their initial values and
\* get_latest_power_meter_data() keeps returning None.
C37_OrchestratorLeavesNestedServices ==
    OnlyOrchestratorCycles =>
        /\ st_stats["power"] = ZeroStats
        /\ st_stats["box"] = ZeroStats
        /\ get_latest_power_meter_data = NoDict

\* C37 witness: three orchestrator cycles have run to their end and were all
\* counted, the nested services' stats are untouched.
C37_Witness ==
    /\ OnlyOrchestratorCycles
    /\ \A t \in StatThreads : st_pc[t] = "idle"
    /\ st_begun["orch"] = 3
    /\ st_stats["orch"].total_collections = 3
    /\ st_stats["orch"].successful_collections = 3
    /\ st_stats["power"] = ZeroStats

\* C37 witness: the same read becomes a dict once the power service itself
\* has run a cycle.
C37_WitnessPowerCycle ==
    /\ st_begun["power"] = 1
    /\ st_stats["power"].successful_collections = 1
    /\ get_latest_power_meter_data # NoDict


(***************************************************************************)
(* C38: collect_now next to a scheduled cycle of the same service          *)
(***************************************************************************)
\* a cycle on the loop thread and a collect_now of the same service k have
\* overlapped and both have returned; these are the two cycles counted in
\* the stats dict of k
BothFinished(k) ==
    /\ st_begun[k] = 2
    /\ st_overlap[k]
    /\ ~st_midreset[k]
    /\ ~InCycle(k)

\* C38: when collect_now runs on the caller's thread concurrently with a
\* scheduled cycle of the same service, no counter update is lost: once both
\* cycles have finished, total_collections has increased by exactly two and
\* successful_collections + failed_collections by exactly two.
C38_NoCounterUpdateLost ==
    \A k \in Kinds :
        BothFinished(k) =>
            /\ st_stats[k].total_collections = 2
            /\ st_stats[k].successful_collections
               + st_stats[k].failed_collections = 2

\* C38 counterexample state: the scheduled cycle and collect_now of the box
\* service have both finished, one succeeded and one failed, and the stats
\* count one cycle.
C38_UpdateLost ==
    /\ BothFinished("box")
    /\ st_running["box"]
    /\ st_stats["box"].total_collections = 1
    /\ st_stats["box"].successful_collections = 1
    /\ st_stats["box"].failed_collections = 1

\* C38: the two cycles are both counted when the stores happen to fall one
\* after the other.
C38_BothCounted ==
    /\ BothFinished("box")
    /\ st_stats["box"].total_collections = 2
    /\ st_stats["box"].successful_collections
       + st_stats["box"].failed_collections = 2


(***************************************************************************)
(* C39: total_collections == successful_collections + failed_collections   *)
(***************************************************************************)
\* every cycle counted in total_collections is counted in exactly one of the
\* two outcome counters
Balanced(k) ==
    st_stats[k].total_collections =
        st_stats[k].successful_collections + st_stats[k].failed_collections

\* C39 as stated: whenever no cycle of a service is in progress and its
\* cycles have not overlapped, total_collections equals
\* successful_collections + failed_collections.
C39_TotalIsSuccessPlusFailed ==
    \A k \in Kinds : ~InCycle(k) /\ ~st_overlap[k] => Balanced(k)

\* C39, amended: whenever no cycle of a service is in progress, its cycles
\* have not overlapped and reset_stats has not replaced its stats during a
\* cycle, total_collections equals successful_collections +
\* failed_collections and equals the number of cycles run: every cycle
\* increments total once at its start and exactly one of success or fail
\* before it ends, on the normal path and on the exception path.
C39_BalancedUnlessResetMidCycle ==
    \A k \in Kinds :
        ~InCycle(k) /\ ~st_overlap[k] /\ ~st_midreset[k] =>
            /\ Balanced(k)
            /\ st_stats[k].total_collections = st_begun[k]

\* C39 witness: three cycles of the box service, one after the other, have
\* ended: one with a device collected, one with none, one in the except
\* block.
C39_Witness ==
    /\ \A t \in StatThreads : st_pc[t] = "idle"
    /\ ~st_overlap["box"]
    /\ ~st_midreset["box"]
    /\ st_stats["box"] = [total_collections |-> 3, successful_collections |-> 1,
                          failed_collections |-> 2, last_error |-> TRUE]

\* C39 counterexample state: reset_stats was called while the only cycle of
\* the orchestrator was in its try block; the cycle has ended and is counted
\* as a success of zero collections.
C39_ResetDuringCycle ==
    /\ \A t \in StatThreads : st_pc[t] = "idle"
    /\ ~st_overlap["orch"]
    /\ st_midreset["orch"]
    /\ st_begun["orch"] = 1
    /\ st_stats["orch"].total_collections = 0
    /\ st_stats["orch"].successful_collections = 1

\* a further state of C38: the scheduled cycle and collect_now both collected
\* a device, and the second += of the two crossed: one success is counted.
C38_OutcomeLost ==
    /\ BothFinished("box")
    /\ st_stats["box"].total_collections = 2
    /\ st_stats["box"].successful_collections = 1
    /\ st_stats["box"].failed_collections = 0

====
